---- MODULE Spec2Model ----
(***************************************************************************)
(* Credential / token lifecycle of bbcli: the OAuth token and its expiry,  *)
(* the two secret stores (system keyring and encrypted files), the          *)
(* credential resolution of BitbucketAPIClient, the token endpoint calls    *)
(* of OAuthManager and the interactive login command.                       *)
(*                                                                         *)
(* Python values are modelled as follows.  A str is a TLA+ string and a    *)
(* str-typed None is the string None.  An int-typed None is NoInt.  An     *)
(* object-typed None (a token, an app, a credential pair, a file that does *)
(* not exist) is the record Null.  A call that may raise yields either      *)
(* Ok(v) or Raise(exception).                                               *)
(***************************************************************************)
EXTENDS Integers, Sequences, FiniteSets, TLC

(* ------------------------------ bounds --------------------------------- *)
MaxTime == 2            \* the clock runs over 0 .. MaxTime ticks
TickStep == 60          \* seconds per clock tick

(* --------------------------- Python values ----------------------------- *)
None == "None"
NoInt == -1
Null == [null |-> TRUE]

Truthy(s) == s # None /\ s # ""

Ok(v) == [value |-> v]
Raise(e) == [exc |-> e]
Raised(r) == "exc" \in DOMAIN r

AuthenticationError == "AuthenticationError"
ConfigurationError == "ConfigurationError"
BBCLIError == "BBCLIError"

(* ----------------------------- input sets ------------------------------ *)
Passphrases == {"pw1", "pw2"}
ExpiresInValues == {NoInt, 30, 60, 120}
Times == {i * TickStep : i \in 0 .. MaxTime}

VARIABLES
    now,                \* time.time(), in seconds
    keyring_works,      \* whether the system keyring answers the probe
    kr_username,        \* keyring entry ("bbcli", "bitbucket_username")
    kr_app_secret,      \* keyring entry ("bbcli", "bitbucket_app_secret")
    kr_oauth_app,       \* keyring entry ("bbcli_oauth_app", "default")
    kr_oauth_token,     \* keyring entry ("bbcli_oauth_credentials", "default")
    file_credentials,   \* <config_dir>/credentials.enc
    file_oauth_app,     \* <config_dir>/oauth_app.enc
    file_oauth_token,   \* <config_dir>/oauth_token.enc
    environ,            \* os.environ: BBCLI_USERNAME, BBCLI_PASSWORD, BBCLI_OAUTH_TOKEN
    client,             \* the BitbucketAPIClient instance
    login,              \* the running login command
    inflight,           \* the call session.request is working on
    umask,              \* the file mode creation mask of the process
    file_mode,          \* the permission bits of each fallback file
    config,             \* SingletonMeta._instances, its lock and the calling threads
    last                \* the most recent operation and what it observed

vars == <<now, keyring_works, kr_username, kr_app_secret, kr_oauth_app,
          kr_oauth_token, file_credentials, file_oauth_app, file_oauth_token,
          environ, client, login, inflight, umask, file_mode, config, last>>

\* no call in progress
NoRequest == [pc |-> "idle"]

\* the threads of the process that call Config() or get_config()
MaxThreads == 2
Threads == 1 .. MaxThreads
NoThread == 0

\* a process in which Config was never called.  _lock: the thread holding
\* SingletonMeta._lock; _instances: the Config instance of the dictionary;
\* pc, config_dir, received: where each thread is in __call__, the argument
\* it passed and what its call returned; init_runs, init_done: how many
\* times Config.__init__ was entered and how many times it completed
NoConfig ==
    [_lock |-> NoThread,
     _instances |-> Null,
     pc |-> [t \in Threads |-> "idle"],
     config_dir |-> [t \in Threads |-> None],
     received |-> [t \in Threads |-> Null],
     init_runs |-> 0,
     init_done |-> 0]

keyring == <<kr_username, kr_app_secret, kr_oauth_app, kr_oauth_token>>
files == <<file_credentials, file_oauth_app, file_oauth_token, file_mode>>

(* ------------------------------ OAuthToken ----------------------------- *)
ExpiryBuffer == 60

\* dataclass constructor followed by __post_init__
OAuthToken(access_token, token_type, expires_in, refresh_token, scope, created_at, t) ==
    [access_token |-> access_token,
     token_type |-> token_type,
     expires_in |-> expires_in,
     refresh_token |-> refresh_token,
     scope |-> scope,
     created_at |-> IF created_at = NoInt THEN t ELSE created_at]

is_expired_nobuffer(tok, t) ==
    IF tok.expires_in = NoInt \/ tok.created_at = NoInt
    THEN FALSE
    ELSE t > tok.created_at + tok.expires_in

is_expired_ge(tok, t) ==
    IF tok.expires_in = NoInt \/ tok.created_at = NoInt
    THEN FALSE
    ELSE t >= tok.created_at + tok.expires_in - ExpiryBuffer

is_expired(tok, t) ==
    IF tok.expires_in = NoInt \/ tok.created_at = NoInt
    THEN FALSE
    ELSE t > tok.created_at + tok.expires_in - ExpiryBuffer

\* created_at is left out of the payload
to_dict_restamp(tok) ==
    [access_token |-> tok.access_token,
     token_type |-> tok.token_type,
     expires_in |-> tok.expires_in,
     refresh_token |-> tok.refresh_token,
     scope |-> tok.scope,
     created_at |-> NoInt]

to_dict(tok) ==
    [access_token |-> tok.access_token,
     token_type |-> tok.token_type,
     expires_in |-> tok.expires_in,
     refresh_token |-> tok.refresh_token,
     scope |-> tok.scope,
     created_at |-> tok.created_at]

from_dict(data, t) ==
    OAuthToken(data.access_token, data.token_type, data.expires_in,
               data.refresh_token, data.scope, data.created_at, t)

\* OAuthApp dataclass, to_dict and from_dict
OAuthApp(client_id, client_secret, redirect_uri, scopes) ==
    [client_id |-> client_id, client_secret |-> client_secret,
     redirect_uri |-> redirect_uri, scopes |-> scopes]

app_to_dict(app) ==
    [client_id |-> app.client_id, client_secret |-> app.client_secret,
     redirect_uri |-> app.redirect_uri, scopes |-> app.scopes]

app_from_dict(data) ==
    OAuthApp(data.client_id, data.client_secret, data.redirect_uri, data.scopes)

json_dumps(d) == [json |-> d]
json_loads(s) == s.json

(* ------------------------- encrypted-file backend ---------------------- *)
Corrupt == [corrupt |-> TRUE]

FileNames == {"credentials.enc", "oauth_app.enc", "oauth_token.enc"}

\* os.chmod(self.credentials_file, 0o600)
SecureMode == 384

\* the mode open() and Path.write_bytes() ask for when they create a file: 0o666
CreateMode == 438

\* the usual mask 0o022
DefaultUmask == 18

\* no fallback file exists
NoModes == [f \in FileNames |-> NoInt]

\* a & ~b on permission bits
RECURSIVE and_not(_, _)
and_not(a, b) ==
    IF a = 0 THEN 0
    ELSE (a % 2) * (1 - (b % 2)) + 2 * and_not(a \div 2, b \div 2)

\* the mode of a file the process creates
created_mode(mask) == and_not(CreateMode, mask)

\* the permission bits once an operation has written or removed its files:
\* a removed file has none, a file in chmodded is 0o600, a file that was
\* created gets created_mode, a file that was there keeps its bits
FileModesAfter(chmodded) ==
    file_mode' =
        [f \in FileNames |->
            LET file_after == IF f = "credentials.enc" THEN file_credentials'
                              ELSE IF f = "oauth_app.enc" THEN file_oauth_app'
                              ELSE file_oauth_token'
            IN  IF file_after = Null THEN NoInt
                ELSE IF f \in chmodded THEN SecureMode
                ELSE IF file_mode[f] = NoInt THEN created_mode(umask)
                ELSE file_mode[f]]

\* the character U+0000, written as the two characters \0
NUL == "\\0"

\* HMAC's key of a password of at most one SHA-256 block: the password
\* zero-padded to the block, i.e. the password up to its trailing NULs
RECURSIVE hmac_key(_)
hmac_key(password) ==
    IF Len(password) >= Len(NUL)
          /\ SubSeq(password, Len(password) - Len(NUL) + 1, Len(password)) = NUL
    THEN hmac_key(SubSeq(password, 1, Len(password) - Len(NUL)))
    ELSE password

\* PBKDF2-HMAC-SHA256 with a fixed salt: a function of HMAC's key
_get_encryption_key(password) ==
    <<"pbkdf2-sha256", "bbcli_salt_v1", hmac_key(password)>>

\* Fernet(key).encrypt(data): only the same key authenticates the blob
_encrypt_data(data, master_password) ==
    [key |-> _get_encryption_key(master_password), plaintext |-> data]

\* _decrypt_data with a Fernet that does not authenticate the blob
_decrypt_data_unauthenticated(encrypted_data, master_password) ==
    IF encrypted_data = Corrupt
    THEN Raise(AuthenticationError)
    ELSE Ok(encrypted_data.plaintext)

_decrypt_data(encrypted_data, master_password) ==
    IF encrypted_data = Corrupt
    THEN Raise(AuthenticationError)
    ELSE IF encrypted_data.key # _get_encryption_key(master_password)
         THEN Raise(AuthenticationError)
         ELSE Ok(encrypted_data.plaintext)

(* ------------------------------ AuthManager ---------------------------- *)
\* set_password / get_password / delete_password of a throwaway entry
_check_keyring_availability == keyring_works

\* the JSON payload of credentials.enc
credentials_json(username, app_password) ==
    json_dumps([username |-> username, app_password |-> app_password])

_encrypt_credentials(username, app_password, master_password) ==
    [key |-> _get_encryption_key(master_password),
     plaintext |-> credentials_json(username, app_password)]

_decrypt_credentials(master_password) ==
    IF file_credentials = Null
    THEN Ok(Null)
    ELSE IF file_credentials = Corrupt
         THEN Raise(AuthenticationError)
         ELSE IF file_credentials.key # _get_encryption_key(master_password)
              THEN Raise(AuthenticationError)
              ELSE LET credentials == json_loads(file_credentials.plaintext)
                   IN Ok([username |-> credentials.username,
                          password |-> credentials.app_password])

\* kfail: the keyring read raises (it is logged, and the file is tried)
get_credentials(keyring_available, master_password, kfail) ==
    IF keyring_available /\ ~kfail /\ Truthy(kr_username) /\ Truthy(kr_app_secret)
    THEN Ok([username |-> kr_username, password |-> kr_app_secret])
    ELSE _decrypt_credentials(master_password)

(* ------------------------------ OAuthStorage --------------------------- *)
\* the whole body runs under "except Exception: return None"
get_oauth_token(keyring_available, master_password, kfail, t) ==
    LET token_json ==
            IF keyring_available
            THEN IF kfail THEN Raise("KeyringError") ELSE Ok(kr_oauth_token)
            ELSE IF file_oauth_token # Null
                 THEN _decrypt_data(file_oauth_token, master_password)
                 ELSE Ok(Null)
    IN  IF Raised(token_json)
        THEN Ok(Null)
        ELSE IF token_json.value # Null
             THEN Ok(from_dict(json_loads(token_json.value), t))
             ELSE Ok(Null)

\* the whole body runs under "except Exception: return None"
get_oauth_app(keyring_available, master_password, kfail) ==
    LET app_json ==
            IF keyring_available
            THEN IF kfail THEN Raise("KeyringError") ELSE Ok(kr_oauth_app)
            ELSE IF file_oauth_app # Null
                 THEN _decrypt_data(file_oauth_app, master_password)
                 ELSE Ok(Null)
    IN  IF Raised(app_json)
        THEN Ok(Null)
        ELSE IF app_json.value # Null
             THEN Ok(app_from_dict(json_loads(app_json.value)))
             ELSE Ok(Null)

\* get_valid_token without the is_expired test
get_valid_token_unchecked(keyring_available, master_password, kfail, t) ==
    get_oauth_token(keyring_available, master_password, kfail, t).value

get_valid_token(keyring_available, master_password, kfail, t) ==
    LET token == get_oauth_token(keyring_available, master_password, kfail, t).value
    IN  IF token # Null /\ ~is_expired(token, t) THEN token ELSE Null

(* --------------------------- BitbucketAPIClient ------------------------ *)
\* __init__: both AuthManager instances probe the keyring as they are built
BitbucketAPIClient(username, password, oauth_token, prefer_oauth) ==
    [_provided_username |-> username,
     _provided_password |-> password,
     _provided_oauth_token |-> oauth_token,
     _prefer_oauth |-> prefer_oauth,
     auth_keyring_available |-> _check_keyring_availability,
     oauth_keyring_available |-> _check_keyring_availability]

\* inp: what the user types and what the keyring does while the call runs:
\*   pw_token  master passphrase typed when oauth_token.enc is decrypted
\*   pw_creds  master passphrase typed when credentials.enc is decrypted
\*   kfail     the keyring read raises
CallInputs == [pw_token : Passphrases, pw_creds : Passphrases, kfail : BOOLEAN]

_get_credentials_env_first(c, inp) ==
    IF Truthy(environ.BBCLI_USERNAME) /\ Truthy(environ.BBCLI_PASSWORD)
    THEN Ok([username |-> environ.BBCLI_USERNAME, password |-> environ.BBCLI_PASSWORD])
    ELSE IF Truthy(c._provided_username) /\ Truthy(c._provided_password)
         THEN Ok([username |-> c._provided_username, password |-> c._provided_password])
         ELSE get_credentials(c.auth_keyring_available, inp.pw_creds, inp.kfail)

_get_credentials(c, inp) ==
    IF Truthy(c._provided_username) /\ Truthy(c._provided_password)
    THEN Ok([username |-> c._provided_username, password |-> c._provided_password])
    ELSE IF Truthy(environ.BBCLI_USERNAME) /\ Truthy(environ.BBCLI_PASSWORD)
         THEN Ok([username |-> environ.BBCLI_USERNAME, password |-> environ.BBCLI_PASSWORD])
         ELSE get_credentials(c.auth_keyring_available, inp.pw_creds, inp.kfail)

\* token: the access token or None; store_reads: calls of get_valid_token()
_get_oauth_token_env_first(c, inp, t) ==
    IF Truthy(environ.BBCLI_OAUTH_TOKEN)
    THEN [token |-> environ.BBCLI_OAUTH_TOKEN, store_reads |-> 0]
    ELSE IF Truthy(c._provided_oauth_token)
         THEN [token |-> c._provided_oauth_token, store_reads |-> 0]
         ELSE LET stored_token == get_valid_token(c.oauth_keyring_available,
                                                  inp.pw_token, inp.kfail, t)
              IN  [token |-> IF stored_token # Null
                             THEN stored_token.access_token ELSE None,
                   store_reads |-> 1]

_get_oauth_token(c, inp, t) ==
    IF Truthy(c._provided_oauth_token)
    THEN [token |-> c._provided_oauth_token, store_reads |-> 0]
    ELSE IF Truthy(environ.BBCLI_OAUTH_TOKEN)
         THEN [token |-> environ.BBCLI_OAUTH_TOKEN, store_reads |-> 0]
         ELSE LET stored_token == get_valid_token(c.oauth_keyring_available,
                                                  inp.pw_token, inp.kfail, t)
              IN  [token |-> IF stored_token # Null
                             THEN stored_token.access_token ELSE None,
                   store_reads |-> 1]

b64encode(s) == "b64<" \o s \o ">"

_create_basic_auth_header(username, password) ==
    "Basic " \o b64encode(username \o ":" \o password)

\* basic credentials are tried before the bearer token
get_auth_header_basic_first(c, inp, t) ==
    LET oauth_token == _get_oauth_token(c, inp, t).token
        credentials == _get_credentials(c, inp)
    IN  IF ~Raised(credentials) /\ credentials.value # Null
        THEN Ok(_create_basic_auth_header(credentials.value.username,
                                          credentials.value.password))
        ELSE IF Truthy(oauth_token) /\ c._prefer_oauth
             THEN Ok("Bearer " \o oauth_token)
             ELSE Ok(None)

get_auth_header(c, inp, t) ==
    LET oauth_token == _get_oauth_token(c, inp, t).token
    IN  IF Truthy(oauth_token) /\ c._prefer_oauth
        THEN Ok("Bearer " \o oauth_token)
        ELSE LET credentials == _get_credentials(c, inp)
             IN  IF Raised(credentials)
                 THEN credentials
                 ELSE IF credentials.value # Null
                      THEN Ok(_create_basic_auth_header(credentials.value.username,
                                                        credentials.value.password))
                      ELSE Ok(None)

\* the header chosen without looking at _prefer_oauth
request_authorization_any_preference(c, inp, t) ==
    LET oauth_token == _get_oauth_token(c, inp, t).token
    IN  IF Truthy(oauth_token)
        THEN Ok("Bearer " \o oauth_token)
        ELSE LET credentials == _get_credentials(c, inp)
             IN  IF Raised(credentials)
                 THEN credentials
                 ELSE IF credentials.value # Null
                      THEN Ok(_create_basic_auth_header(credentials.value.username,
                                                        credentials.value.password))
                      ELSE Ok(None)

\* the Authorization header _make_request puts on the request (lines 248-259)
request_authorization(c, inp, t) ==
    LET oauth_token == _get_oauth_token(c, inp, t).token
    IN  IF Truthy(oauth_token) /\ c._prefer_oauth
        THEN Ok("Bearer " \o oauth_token)
        ELSE LET credentials == _get_credentials(c, inp)
             IN  IF Raised(credentials)
                 THEN credentials
                 ELSE IF credentials.value # Null
                      THEN Ok(_create_basic_auth_header(credentials.value.username,
                                                        credentials.value.password))
                      ELSE Ok(None)

\* the JSON bodies of an error response: not JSON at all, the Bitbucket
\* error envelope {"error": {"message": ...}}, an object with no "error"
\* key, and an object whose "error" is a string
Bodies == {"unparseable", "envelope", "object", "error_string"}

NoBody == "unparseable"

\* Retry-After as the provider may send it: absent, delta-seconds, HTTP-date
RetryAfterValues == {None, "30", "Wed, 21 Oct 2015 07:28:00 GMT"}

\* an HTTP response as _make_request sees it; transport failures are the
\* requests exceptions raised by session.request
Responses ==
    [kind : {"response"}, status_code : {200, 304, 401, 500},
     retry_after : {None}, body : {NoBody}]
        \cup [kind : {"response"}, status_code : {404},
              retry_after : {None}, body : Bodies]
        \cup [kind : {"response"}, status_code : {429},
              retry_after : RetryAfterValues, body : {NoBody}]
        \cup [kind : {"Timeout", "ConnectionError", "RetryError"}, status_code : {0},
              retry_after : {None}, body : {NoBody}]

\* requests.Response.ok: raise_for_status() raises only for 400 .. 599
response_ok(resp) == resp.status_code < 400

APIError(message, status_code) ==
    Raise([type |-> "APIError", message |-> message, status_code |-> status_code])

\* int(value) of a header value or of the default 60
int_of(value) ==
    IF value = None THEN Ok(60)
    ELSE IF value = "30" THEN Ok(30)
    ELSE Raise([type |-> "ValueError", message |-> "invalid literal for int()",
                status_code |-> 0])

\* f"{n}" of the integers that occur
str_of(n) == IF n = 60 THEN "60" ELSE IF n = 30 THEN "30" ELSE "?"

\* str(response.status_code) and response.reason
status_line(status_code) ==
    IF status_code = 404 THEN "HTTP 404: Not Found"
    ELSE IF status_code = 500 THEN "HTTP 500: Internal Server Error"
    ELSE IF status_code = 413 THEN "HTTP 413: Payload Too Large"
    ELSE IF status_code = 503 THEN "HTTP 503: Service Unavailable"
    ELSE "HTTP ?"

\* one message whatever the source
unauthorized_error_generic(c, pw, kfail) ==
    Raise([type |-> AuthenticationError,
           message |-> "Authentication failed with stored credentials.",
           status_code |-> 0])

\* the message chosen for a 401 (lines 275-291); pw is the master passphrase
\* typed when this second _get_credentials() call decrypts credentials.enc
unauthorized_error(c, pw, kfail) ==
    LET credentials == _get_credentials(c, [pw_token |-> pw, pw_creds |-> pw, kfail |-> kfail])
    IN  IF Raised(credentials)
        THEN Raise([type |-> AuthenticationError,
                    message |-> "Failed to decrypt stored credentials", status_code |-> 0])
        ELSE Raise([type |-> AuthenticationError,
                    message |->
                        IF credentials.value = Null
                        THEN "No authentication credentials found."
                        ELSE IF Truthy(c._provided_username) \/ Truthy(c._provided_password)
                        THEN "Authentication failed with provided credentials."
                        ELSE IF Truthy(environ.BBCLI_USERNAME) \/ Truthy(environ.BBCLI_PASSWORD)
                        THEN "Authentication failed with environment variable credentials."
                        ELSE "Authentication failed with stored credentials.",
                    status_code |-> 0])

\* the 429 branch (lines 294-300)
rate_limit_error(resp) ==
    LET retry_after == int_of(resp.retry_after)
    IN  IF Raised(retry_after) THEN retry_after
        ELSE Raise([type |-> "APIError",
                    message |-> "Rate limit exceeded. Retry after "
                                    \o str_of(retry_after.value) \o " seconds.",
                    suggestion |-> "Wait " \o str_of(retry_after.value)
                                    \o " seconds before retrying",
                    status_code |-> 429])

\* the "not response.ok" branch (lines 303-315): only ValueError and
\* KeyError are caught around response.json() and the two .get() calls
api_error(resp) ==
    IF resp.body = "unparseable"
    THEN APIError(status_line(resp.status_code), resp.status_code)
    ELSE IF resp.body = "envelope"
    THEN APIError("Repository not found", resp.status_code)
    ELSE IF resp.body = "object"
    THEN APIError("Unknown API error", resp.status_code)
    ELSE Raise([type |-> "AttributeError",
                message |-> "'str' object has no attribute 'get'", status_code |-> 0])

\* the classification of the outcome of session.request (lines 263-330)
classify_response(c, resp, pw, kfail) ==
    IF resp.kind = "Timeout"
    THEN APIError("Request timed out after 30 seconds", 0)
    ELSE IF resp.kind = "ConnectionError"
    THEN APIError("Failed to connect to Bitbucket API", 0)
    ELSE IF resp.kind = "RetryError"
    THEN APIError("Request failed: RetryError", 0)
    ELSE IF resp.status_code = 401
    THEN unauthorized_error(c, pw, kfail)
    ELSE IF resp.status_code = 429
    THEN rate_limit_error(resp)
    ELSE IF ~response_ok(resp)
    THEN api_error(resp)
    ELSE Ok(resp)

\* has_credentials(): "or" does not reach _get_oauth_token() when a basic
\* pair is found, and a raise of _get_credentials() escapes
has_credentials(c, inp, t) ==
    LET credentials == _get_credentials(c, inp)
    IN  IF Raised(credentials) THEN credentials
        ELSE Ok(credentials.value # Null \/ _get_oauth_token(c, inp, t).token # None)

\* where the credential put on the request came from (lines 248-259 with
\* the two resolvers): "none" when no Authorization header is sent
presented_source(c, inp, t) ==
    IF Truthy(_get_oauth_token(c, inp, t).token) /\ c._prefer_oauth
    THEN IF Truthy(c._provided_oauth_token) THEN "provided"
         ELSE IF Truthy(environ.BBCLI_OAUTH_TOKEN) THEN "environment"
         ELSE "stored"
    ELSE LET credentials == _get_credentials(c, inp)
         IN  IF Raised(credentials) THEN "none"
             ELSE IF credentials.value = Null THEN "none"
             ELSE IF Truthy(c._provided_username) /\ Truthy(c._provided_password)
             THEN "provided"
             ELSE IF Truthy(environ.BBCLI_USERNAME) /\ Truthy(environ.BBCLI_PASSWORD)
             THEN "environment"
             ELSE "stored"

\* sent: whether session.request was reached; header: the Authorization
\* header of the request (None when there is none); result: what the caller gets
_make_request(c, inp, resp, pw_401, t) ==
    LET auth == request_authorization(c, inp, t)
    IN  IF Raised(auth)
        THEN [sent |-> FALSE, header |-> None,
              result |-> Raise([type |-> AuthenticationError,
                                message |-> "Failed to decrypt stored credentials",
                                status_code |-> 0])]
        ELSE [sent |-> TRUE, header |-> auth.value,
              result |-> classify_response(c, resp, pw_401, inp.kfail)]

(* ------------------------- store and delete --------------------------- *)
\* store_oauth_token of an OAuthStorage built for the call; fail: the keyring
\* write, the passphrase prompt or the file write raises (the call returns False)
StoreOAuthToken(oauth_token, master_password, fail) ==
    LET keyring_available == _check_keyring_availability
        token_json == json_dumps(to_dict(oauth_token))
    IN  /\ IF fail
           THEN UNCHANGED <<kr_oauth_token, file_oauth_token>>
           ELSE IF keyring_available
                THEN /\ kr_oauth_token' = token_json
                     /\ UNCHANGED file_oauth_token
                ELSE /\ file_oauth_token' = _encrypt_data(token_json, master_password)
                     /\ UNCHANGED kr_oauth_token
        /\ last' = [op |-> "store_oauth_token", result |-> ~fail]
        /\ UNCHANGED <<now, keyring_works, kr_username, kr_app_secret, kr_oauth_app,
                       file_credentials, file_oauth_app, environ, client, login, inflight, umask, config>>
        /\ FileModesAfter({})

\* delete_oauth_token: keyring.delete_password raises when there is no entry
DeleteOAuthToken ==
    LET keyring_available == _check_keyring_availability
    IN  /\ IF keyring_available
           THEN /\ kr_oauth_token' = Null
                /\ UNCHANGED file_oauth_token
           ELSE /\ file_oauth_token' = Null
                /\ UNCHANGED kr_oauth_token
        /\ last' = [op |-> "delete_oauth_token",
                    result |-> IF keyring_available THEN kr_oauth_token # Null ELSE TRUE]
        /\ UNCHANGED <<now, keyring_works, kr_username, kr_app_secret, kr_oauth_app,
                       file_credentials, file_oauth_app, environ, client, login, inflight, umask, config>>
        /\ FileModesAfter({})

\* credentials.enc after store_credentials, with the unlink moved ahead of the
\* keyring writes
credentials_file_unlink_first(keyring_available, kfail, ffail, encrypted) ==
    IF keyring_available /\ kfail = 0 THEN Null
    ELSE IF ffail THEN (IF keyring_available THEN Null ELSE file_credentials)
    ELSE encrypted

\* credentials.enc after store_credentials: unlinked once both keyring writes
\* succeeded, else rewritten by the fallback branch unless that raises
credentials_file_after_store(keyring_available, kfail, ffail, encrypted) ==
    IF keyring_available /\ kfail = 0 THEN Null
    ELSE IF ffail THEN file_credentials
    ELSE encrypted

\* store_credentials of an AuthManager built for the call.
\* kfail: 0 the keyring writes succeed, 1 the first set_password raises,
\* 2 the second raises; ffail: the fallback write raises (ConfigurationError)
StoreCredentials(username, app_password, master_password, kfail, ffail) ==
    LET keyring_available == _check_keyring_availability
        observed == [op |-> "store_credentials",
                     keyring_available |-> keyring_available,
                     username |-> username,
                     app_password |-> app_password,
                     master_password |-> master_password,
                     native_written |-> keyring_available /\ kfail = 0,
                     file_before |-> file_credentials]
    IN  /\ file_credentials' =
               credentials_file_after_store(keyring_available, kfail, ffail,
                   _encrypt_credentials(username, app_password, master_password))
        /\ IF keyring_available /\ kfail = 0
           THEN /\ kr_username' = username
                /\ kr_app_secret' = app_password
                /\ last' = observed @@ [result |-> Ok(Null)]
           ELSE /\ kr_username' = IF keyring_available /\ kfail = 2
                                  THEN username ELSE kr_username
                /\ UNCHANGED kr_app_secret
                /\ last' = observed @@
                       [result |-> IF ffail THEN Raise(ConfigurationError)
                                   ELSE Ok(Null)]
        /\ UNCHANGED <<now, keyring_works, kr_oauth_app, kr_oauth_token,
                       file_oauth_app, file_oauth_token, environ, client, login, inflight, umask, config>>
        /\ FileModesAfter(IF ~(keyring_available /\ kfail = 0) /\ ~ffail
                          THEN {"credentials.enc"} ELSE {})

\* delete_credentials: a missing keyring entry raises PasswordDeleteError at
\* the first delete_password that misses it
DeleteCredentials ==
    LET keyring_available == _check_keyring_availability
    IN  /\ IF keyring_available
           THEN IF kr_username = None
                THEN UNCHANGED <<kr_username, kr_app_secret>>
                ELSE /\ kr_username' = None
                     /\ kr_app_secret' = None
           ELSE UNCHANGED <<kr_username, kr_app_secret>>
        /\ file_credentials' = Null
        /\ last' = [op |-> "delete_credentials",
                    result |-> \/ (keyring_available /\ kr_username # None
                                       /\ kr_app_secret # None)
                               \/ file_credentials # Null]
        /\ UNCHANGED <<now, keyring_works, kr_oauth_app, kr_oauth_token,
                       file_oauth_app, file_oauth_token, environ, client, login, inflight, umask, config>>
        /\ FileModesAfter({})

\* time passes
Tick ==
    /\ now + TickStep <= MaxTime * TickStep
    /\ now' = now + TickStep
    /\ last' = [op |-> "tick"]
    /\ UNCHANGED <<keyring_works, keyring, files, environ, client, login, inflight, umask, config>>

(* --------------------------- request actions --------------------------- *)
NoLogin == [pc |-> "idle"]

NewClient(username, password, oauth_token, prefer_oauth) ==
    /\ client' = BitbucketAPIClient(username, password, oauth_token, prefer_oauth)
    /\ last' = [op |-> "new_client"]
    /\ UNCHANGED <<now, keyring_works, keyring, files, environ, login, inflight, umask, config>>

\* what the two stores answer to the client's reads under the inputs inp
ObservedToken(inp) ==
    get_valid_token(client.oauth_keyring_available, inp.pw_token, inp.kfail, now)
ObservedVault(inp) ==
    get_credentials(client.auth_keyring_available, inp.pw_creds, inp.kfail)

ResolveOAuthToken(inp) ==
    /\ client # Null
    /\ LET r == _get_oauth_token(client, inp, now)
       IN  last' = [op |-> "_get_oauth_token", token |-> r.token,
                    store_reads |-> r.store_reads, valid_token |-> ObservedToken(inp)]
    /\ UNCHANGED <<now, keyring_works, keyring, files, environ, client, login, inflight, umask, config>>

ResolveCredentials(inp) ==
    /\ client # Null
    /\ last' = [op |-> "_get_credentials", result |-> _get_credentials(client, inp),
                vault |-> ObservedVault(inp)]
    /\ UNCHANGED <<now, keyring_works, keyring, files, environ, client, login, inflight, umask, config>>

GetAuthHeader(inp) ==
    /\ client # Null
    /\ last' = [op |-> "get_auth_header", header |-> get_auth_header(client, inp, now),
                valid_token |-> ObservedToken(inp), vault |-> ObservedVault(inp)]
    /\ UNCHANGED <<now, keyring_works, keyring, files, environ, client, login, inflight, umask, config>>

MakeRequest(inp, resp, pw_401) ==
    /\ client # Null
    /\ LET r == _make_request(client, inp, resp, pw_401, now)
       IN  last' = [op |-> "_make_request", sent |-> r.sent, header |-> r.header,
                    result |-> r.result, response |-> resp,
                    valid_token |-> ObservedToken(inp), vault |-> ObservedVault(inp),
                    has_credentials |->
                        has_credentials(client, [inp EXCEPT !.pw_creds = pw_401], now),
                    source |-> presented_source(client, inp, now)]
    /\ UNCHANGED <<now, keyring_works, keyring, files, environ, client, login, inflight, umask, config>>

(* ------------------- specification: credential resolution -------------- *)
\* BBCLI_USERNAME / BBCLI_PASSWORD: both unset, both set, only the first set
Environments ==
    {[BBCLI_USERNAME |-> up[1], BBCLI_PASSWORD |-> up[2], BBCLI_OAUTH_TOKEN |-> tok] :
        up \in {<<None, None>>, <<"euser", "epass">>, <<"euser", None>>},
        tok \in {None, "", "etok"}}

\* inputs that can make a difference under the backend in use
ResolverInputs ==
    IF keyring_works
    THEN [pw_token : {"pw1"}, pw_creds : {"pw1"}, kfail : BOOLEAN]
    ELSE [pw_token : Passphrases, pw_creds : Passphrases, kfail : {FALSE}]

StoredToken(expires_in, t) ==
    OAuthToken("stok", "bearer", expires_in, None, None, NoInt, t)

EmptyStores ==
    /\ kr_username = None
    /\ kr_app_secret = None
    /\ kr_oauth_app = Null
    /\ kr_oauth_token = Null
    /\ file_credentials = Null
    /\ file_oauth_app = Null
    /\ file_oauth_token = Null

InitResolver ==
    /\ now = 0
    /\ keyring_works \in BOOLEAN
    /\ EmptyStores
    /\ environ \in Environments
    /\ client = Null
    /\ login = NoLogin
    /\ inflight = NoRequest
    /\ umask = DefaultUmask
    /\ file_mode = NoModes
    /\ config = NoConfig
    /\ last = [op |-> "start"]

\* one process: its client is built once (get_api_client), with any arguments
NextResolver ==
    \/ /\ client = Null
       /\ \E up \in {<<None, None>>, <<"cuser", "cpass">>, <<"cuser", None>>},
             tok \in {None, "", "ctok"}, prefer \in BOOLEAN :
               NewClient(up[1], up[2], tok, prefer)
    \/ StoreOAuthToken(StoredToken(60, now), "pw1", FALSE)
    \/ DeleteOAuthToken
    \/ StoreCredentials("suser", "spass", "pw1", 0, FALSE)
    \/ DeleteCredentials
    \/ Tick
    \/ \E inp \in ResolverInputs : ResolveOAuthToken(inp)
    \/ \E inp \in ResolverInputs : ResolveCredentials(inp)
    \/ \E inp \in ResolverInputs : GetAuthHeader(inp)
    \/ \E inp \in ResolverInputs :
          MakeRequest(inp, [kind |-> "response", status_code |-> 200,
                            retry_after |-> None, body |-> NoBody], "pw1")

SpecResolver == InitResolver /\ [][NextResolver]_vars

(* ------------------------ claims: resolution --------------------------- *)
\* the bearer candidate of highest priority: the constructor token, else the
\* BBCLI_OAUTH_TOKEN variable, else the token get_valid_token() answers with
FirstBearerCandidate ==
    IF Truthy(client._provided_oauth_token) THEN client._provided_oauth_token
    ELSE IF Truthy(environ.BBCLI_OAUTH_TOKEN) THEN environ.BBCLI_OAUTH_TOKEN
    ELSE IF last.valid_token # Null THEN last.valid_token.access_token
    ELSE None

\* C1: with OAuth preference enabled, whenever a bearer candidate exists
\* (constructor token, environment token or a token from get_valid_token()),
\* get_auth_header() returns "Bearer <token>" and _make_request sends that
\* header, whatever basic credentials the constructor, the environment or
\* the vault hold.
C1_BearerWinsOverBasic ==
    /\ (/\ last.op = "get_auth_header"
        /\ client._prefer_oauth
        /\ FirstBearerCandidate # None)
            => last.header = Ok("Bearer " \o FirstBearerCandidate)
    /\ (/\ last.op = "_make_request"
        /\ client._prefer_oauth
        /\ FirstBearerCandidate # None)
            => (last.sent /\ last.header = "Bearer " \o FirstBearerCandidate)

\* a request of a client built with constructor basic credentials, with a
\* credential pair in the vault too, whose only bearer candidate is the stored token
C1_Witness ==
    /\ last.op = "_make_request"
    /\ client._prefer_oauth
    /\ Truthy(client._provided_username) /\ Truthy(client._provided_password)
    /\ ~Truthy(client._provided_oauth_token)
    /\ ~Truthy(environ.BBCLI_OAUTH_TOKEN)
    /\ last.valid_token # Null
    /\ ~Raised(last.vault) /\ last.vault.value # Null
    /\ last.header = "Bearer stok"

\* C2: the bearer token resolved is the constructor token if one was given
\* (a non-empty one), else the BBCLI_OAUTH_TOKEN variable if set and
\* non-empty, else the access token of get_valid_token() if it returns one,
\* else none; the token store is read only when the first two are missing.
C2_BearerPriority ==
    last.op = "_get_oauth_token" =>
        /\ last.token = FirstBearerCandidate
        /\ last.store_reads =
              IF Truthy(client._provided_oauth_token) \/ Truthy(environ.BBCLI_OAUTH_TOKEN)
              THEN 0 ELSE 1

\* all three sources hold a token and the constructor's is the one resolved,
\* without a read of the token store
C2_Witness ==
    /\ last.op = "_get_oauth_token"
    /\ Truthy(client._provided_oauth_token)
    /\ Truthy(environ.BBCLI_OAUTH_TOKEN)
    /\ last.valid_token # Null
    /\ last.token = client._provided_oauth_token
    /\ last.store_reads = 0

\* C3: the basic pair resolved is the constructor pair if both parts were
\* given, else the environment pair if both variables are set (non-empty),
\* else whatever CredentialVault.get_credentials() yields.
C3_BasicPriority ==
    last.op = "_get_credentials" =>
        last.result =
            IF Truthy(client._provided_username) /\ Truthy(client._provided_password)
            THEN Ok([username |-> client._provided_username,
                     password |-> client._provided_password])
            ELSE IF Truthy(environ.BBCLI_USERNAME) /\ Truthy(environ.BBCLI_PASSWORD)
                 THEN Ok([username |-> environ.BBCLI_USERNAME,
                          password |-> environ.BBCLI_PASSWORD])
                 ELSE last.vault

\* all three sources hold a pair and the constructor's is the one resolved
C3_Witness ==
    /\ last.op = "_get_credentials"
    /\ Truthy(client._provided_username) /\ Truthy(client._provided_password)
    /\ Truthy(environ.BBCLI_USERNAME) /\ Truthy(environ.BBCLI_PASSWORD)
    /\ ~Raised(last.vault) /\ last.vault.value # Null
    /\ last.result = Ok([username |-> "cuser", password |-> "cpass"])

(* ---------------------- specification: token expiry -------------------- *)
\* OAuthToken(..., expires_in, created_at) is built and is_expired is read;
\* created_at = NoInt leaves the creation time to __post_init__
TokenCheck(expires_in, created_at) ==
    /\ LET tok == OAuthToken("tok", "bearer", expires_in, None, None, created_at, now)
       IN  last' = [op |-> "is_expired", token |-> tok,
                    fresh |-> (created_at = NoInt),
                    expired |-> is_expired(tok, now)]
    /\ UNCHANGED <<now, keyring_works, keyring, files, environ, client, login, inflight, umask, config>>

InitExpiry ==
    /\ now = 0
    /\ keyring_works = TRUE
    /\ EmptyStores
    /\ environ = [BBCLI_USERNAME |-> None, BBCLI_PASSWORD |-> None,
                  BBCLI_OAUTH_TOKEN |-> None]
    /\ client = Null
    /\ login = NoLogin
    /\ inflight = NoRequest
    /\ umask = DefaultUmask
    /\ file_mode = NoModes
    /\ config = NoConfig
    /\ last = [op |-> "start"]

NextExpiry ==
    \/ \E e \in ExpiresInValues, c \in {NoInt} \cup (0 .. MaxTime * TickStep) :
          TokenCheck(e, c)
    \/ Tick

SpecExpiry == InitExpiry /\ [][NextExpiry]_vars

\* C5 as claimed: for every expires_in, a freshly created OAuthToken
\* (created_at equal to the current time) is not expired.
C5_FreshNeverExpired ==
    (last.op = "is_expired" /\ last.token.created_at = now) => ~last.expired

\* C5 as amended: a freshly created OAuthToken is not expired when its
\* expires_in is absent or at least the 60 second buffer.
C5_FreshNotExpiredBeyondBuffer ==
    (/\ last.op = "is_expired"
     /\ last.token.created_at = now
     /\ (last.token.expires_in = NoInt \/ last.token.expires_in >= ExpiryBuffer))
        => ~last.expired

\* a token built without created_at, expiring after exactly the buffer
C5_Witness ==
    /\ last.op = "is_expired"
    /\ last.fresh
    /\ last.token.created_at = now
    /\ last.token.expires_in = ExpiryBuffer
    /\ ~last.expired

\* C6: is_expired is true exactly when expires_in is present and
\* now > created_at + expires_in - 60; so a token created at
\* now - expires_in - 1 is expired and one without expires_in never is.
C6_ExpiryRule ==
    last.op = "is_expired" =>
        /\ last.expired <=>
              (/\ last.token.expires_in # NoInt
               /\ now > last.token.created_at + last.token.expires_in - 60)
        /\ (/\ last.token.expires_in # NoInt
            /\ last.token.created_at = now - last.token.expires_in - 1)
                => last.expired
        /\ last.token.expires_in = NoInt => ~last.expired

\* a token created expires_in + 1 seconds ago, found expired
C6_Witness ==
    /\ last.op = "is_expired"
    /\ last.token.expires_in = 60
    /\ last.token.created_at = now - last.token.expires_in - 1
    /\ last.expired

\* a token inside the buffer but before its nominal end, found expired
C6_WitnessBuffer ==
    /\ last.op = "is_expired"
    /\ last.token.expires_in = 120
    /\ last.token.created_at = 0
    /\ now = 120
    /\ last.expired

(* ---------------------- specification: the two stores ------------------ *)
\* store_oauth_app of an OAuthStorage built for the call
StoreOAuthApp(oauth_app, master_password, fail) ==
    LET keyring_available == _check_keyring_availability
        app_json == json_dumps(app_to_dict(oauth_app))
    IN  /\ IF fail
           THEN UNCHANGED <<kr_oauth_app, file_oauth_app>>
           ELSE IF keyring_available
                THEN /\ kr_oauth_app' = app_json
                     /\ UNCHANGED file_oauth_app
                ELSE /\ file_oauth_app' = _encrypt_data(app_json, master_password)
                     /\ UNCHANGED kr_oauth_app
        /\ last' = [op |-> "store_oauth_app", result |-> ~fail]
        /\ UNCHANGED <<now, keyring_works, kr_username, kr_app_secret, kr_oauth_token,
                       file_credentials, file_oauth_token, environ, client, login, inflight, umask, config>>
        /\ FileModesAfter({})

\* the keyring service starts or stops answering between two commands
KeyringChange ==
    /\ keyring_works' = ~keyring_works
    /\ last' = [op |-> "keyring_change"]
    /\ UNCHANGED <<now, keyring, files, environ, client, login, inflight, umask, config>>

\* a fallback file is damaged on disk
DamageFile(which) ==
    /\ \/ /\ which = "credentials.enc"
          /\ file_credentials \notin {Null, Corrupt}
          /\ file_credentials' = Corrupt
          /\ UNCHANGED <<file_oauth_app, file_oauth_token>>
       \/ /\ which = "oauth_app.enc"
          /\ file_oauth_app \notin {Null, Corrupt}
          /\ file_oauth_app' = Corrupt
          /\ UNCHANGED <<file_credentials, file_oauth_token>>
       \/ /\ which = "oauth_token.enc"
          /\ file_oauth_token \notin {Null, Corrupt}
          /\ file_oauth_token' = Corrupt
          /\ UNCHANGED <<file_credentials, file_oauth_app>>
    /\ last' = [op |-> "damage_file"]
    /\ UNCHANGED <<now, keyring_works, keyring, environ, client, login, inflight, umask, config>>
    /\ FileModesAfter({})

\* whether a read of the fallback file `file` decrypts: "none" when the file
\* is not read, else "ok" or "failed"
DecryptOutcome(file_read, file, master_password) ==
    IF ~file_read \/ file = Null THEN "none"
    ELSE IF Raised(_decrypt_data(file, master_password)) THEN "failed"
    ELSE "ok"

\* the reads, each by a store object built for the call
GetCredentials(master_password, kfail) ==
    LET keyring_available == _check_keyring_availability
        from_keyring == keyring_available /\ ~kfail
                            /\ Truthy(kr_username) /\ Truthy(kr_app_secret)
    IN  /\ last' = [op |-> "get_credentials",
                    keyring_available |-> keyring_available,
                    result |-> get_credentials(keyring_available, master_password, kfail),
                    decrypt |-> DecryptOutcome(~from_keyring, file_credentials,
                                               master_password)]
        /\ UNCHANGED <<now, keyring_works, keyring, files, environ, client, login, inflight, umask, config>>

GetOAuthApp(master_password, kfail) ==
    LET keyring_available == _check_keyring_availability
    IN  /\ last' = [op |-> "get_oauth_app",
                    keyring_available |-> keyring_available,
                    result |-> get_oauth_app(keyring_available, master_password, kfail),
                    decrypt |-> DecryptOutcome(~keyring_available, file_oauth_app,
                                               master_password)]
        /\ UNCHANGED <<now, keyring_works, keyring, files, environ, client, login, inflight, umask, config>>

GetOAuthToken(master_password, kfail) ==
    LET keyring_available == _check_keyring_availability
    IN  /\ last' = [op |-> "get_oauth_token",
                    keyring_available |-> keyring_available,
                    result |-> get_oauth_token(keyring_available, master_password,
                                               kfail, now),
                    decrypt |-> DecryptOutcome(~keyring_available, file_oauth_token,
                                               master_password)]
        /\ UNCHANGED <<now, keyring_works, keyring, files, environ, client, login, inflight, umask, config>>

\* before: the token entries as they were when the call began
GetValidToken(master_password, kfail) ==
    LET keyring_available == _check_keyring_availability
    IN  /\ last' = [op |-> "get_valid_token",
                    keyring_available |-> keyring_available,
                    result |-> get_valid_token(keyring_available, master_password,
                                               kfail, now),
                    read_failed |-> (keyring_available /\ kfail)
                        \/ DecryptOutcome(~keyring_available, file_oauth_token,
                                          master_password) = "failed",
                    before |-> <<kr_oauth_token, file_oauth_token>>]
        /\ UNCHANGED <<now, keyring_works, keyring, files, environ, client, login, inflight, umask, config>>

InitStorage ==
    /\ now = 0
    /\ keyring_works \in BOOLEAN
    /\ EmptyStores
    /\ environ = [BBCLI_USERNAME |-> None, BBCLI_PASSWORD |-> None,
                  BBCLI_OAUTH_TOKEN |-> None]
    /\ client = Null
    /\ login = NoLogin
    /\ inflight = NoRequest
    /\ umask = DefaultUmask
    /\ file_mode = NoModes
    /\ config = NoConfig
    /\ last = [op |-> "start"]

StorageInputs ==
    IF keyring_works
    THEN [pw : {"pw1"}, kfail : BOOLEAN]
    ELSE [pw : Passphrases, kfail : {FALSE}]

NextStorage ==
    \/ KeyringChange
    \/ \E fail \in BOOLEAN : StoreOAuthToken(StoredToken(120, now), "pw1", fail)
    \/ DeleteOAuthToken
    \/ \E fail \in BOOLEAN :
          StoreOAuthApp(OAuthApp("cid", "csecret", "http://localhost:8080/callback", None),
                        "pw1", fail)
    \/ \E kfail \in 0 .. 2, ffail \in BOOLEAN :
          StoreCredentials("suser", "spass", "pw1", kfail, ffail)
    \/ DeleteCredentials
    \/ \E which \in {"credentials.enc", "oauth_app.enc", "oauth_token.enc"} :
          DamageFile(which)
    \/ Tick
    \/ \E inp \in StorageInputs : GetCredentials(inp.pw, inp.kfail)
    \/ \E inp \in StorageInputs : GetOAuthApp(inp.pw, inp.kfail)
    \/ \E inp \in StorageInputs : GetOAuthToken(inp.pw, inp.kfail)
    \/ \E inp \in StorageInputs : GetValidToken(inp.pw, inp.kfail)

SpecStorage == InitStorage /\ [][NextStorage]_vars

(* --------------------------- claims: the stores ------------------------ *)
\* the token held by the backend the store object selected: the keyring
\* entry, or the payload of oauth_token.enc (a damaged file holds none)
StoredTokenOf(keyring_available) ==
    IF keyring_available
    THEN IF kr_oauth_token = Null THEN Null
         ELSE from_dict(json_loads(kr_oauth_token), now)
    ELSE IF file_oauth_token \in {Null, Corrupt} THEN Null
         ELSE from_dict(json_loads(file_oauth_token.plaintext), now)

\* C4: get_valid_token() returns the stored token if and only if a token is
\* stored and it is not expired, returns absent in every other case, and
\* leaves the stored token as it was.
C4_ValidTokenIffStoredUnexpired ==
    last.op = "get_valid_token" =>
        LET stored == StoredTokenOf(last.keyring_available)
        IN  /\ last.result # Null <=> (stored # Null /\ ~is_expired(stored, now))
            /\ last.result # Null => last.result = stored
            /\ <<kr_oauth_token, file_oauth_token>> = last.before

\* C10: a fallback read whose decryption fails (wrong master passphrase or
\* damaged file) raises AuthenticationError, in get_credentials,
\* get_oauth_app and get_oauth_token alike.
C10_DecryptFailureRaises ==
    (/\ last.op \in {"get_credentials", "get_oauth_app", "get_oauth_token"}
     /\ last.decrypt = "failed")
        => (Raised(last.result) /\ last.result.exc = AuthenticationError)

\* the part of C10 that the code keeps: get_credentials raises
C10_VaultDecryptFailureRaises ==
    (last.op = "get_credentials" /\ last.decrypt = "failed")
        => (Raised(last.result) /\ last.result.exc = AuthenticationError)

(* ------------------------------ OAuthManager --------------------------- *)
\* a key the JSON body of a response does not have
Missing == "<missing>"

\* dict.get(key) and dict.get(key, default) on a str-valued key: a key that
\* is present with JSON null yields None, only a missing key yields the default
dict_get(value, default) == IF value = Missing THEN default ELSE value

RaiseMsg(e, message) == [exc |-> e, message |-> message]

\* what the token endpoint can answer to one POST: the transport raises, or
\* a response arrives with a status (ok: below 400) and a body that is JSON
\* (an object with these keys) or is not
TokenBodies ==
    [parses : {TRUE}, access_token : {Missing, "tokA"}, expires_in : {NoInt, 30, 120},
     refresh_token : {Missing, None, "rnew"},
     error_description : {Missing, "invalid_grant"}]
        \cup {[parses |-> FALSE, access_token |-> Missing, expires_in |-> NoInt,
               refresh_token |-> Missing, error_description |-> Missing]}

TokenResponses ==
    [raised : {FALSE}, ok : BOOLEAN, body : TokenBodies]
        \cup {[raised |-> TRUE, ok |-> FALSE,
               body |-> [parses |-> FALSE, access_token |-> Missing,
                         expires_in |-> NoInt, refresh_token |-> Missing,
                         error_description |-> Missing]]}

\* the try block shared by the token requests: `flow` and `failed` are the
\* words of the two messages, refresh_default the second argument of
\* token_data.get("refresh_token", ...)
token_request(flow, failed, refresh_default, resp, t) ==
    LET network(e) ==
            RaiseMsg(AuthenticationError, "Network error during token " \o flow \o ": " \o e)
    IN  IF resp.raised THEN network("ConnectionError")
        ELSE IF ~resp.ok /\ ~resp.body.parses
        THEN \* error_data is still {} here, and the outer handler catches the raise
             network("OAuth token " \o flow \o " failed: "
                        \o dict_get(Missing, failed))
        ELSE IF ~resp.body.parses THEN network("JSONDecodeError")
        ELSE IF resp.body.access_token = Missing THEN network("'access_token'")
        ELSE Ok(OAuthToken(resp.body.access_token, "bearer", resp.body.expires_in,
                           dict_get(resp.body.refresh_token, refresh_default),
                           None, NoInt, t))

exchange_code_for_token(oauth_app, authorization_code, code_verifier, resp, t) ==
    token_request("exchange", "Token exchange failed", None, resp, t)

refresh_access_token(oauth_app, refresh_token, resp, t) ==
    token_request("refresh", "Token refresh failed", refresh_token, resp, t)

\* secrets.token_bytes / secrets.token_urlsafe: rnd is the random draw
S256(code_verifier) == "S256<" \o code_verifier \o ">"

generate_pkce_pair(rnd) ==
    [code_verifier |-> rnd, code_challenge |-> S256(rnd)]

AUTHORIZE_URL == "https://bitbucket.org/site/oauth2/authorize"

\* build_authorization_url generating the PKCE pair whatever use_pkce says
build_authorization_url_pkce_always(oauth_app, state, use_pkce, rnd_state, rnd_verifier) ==
    LET the_state == IF state = None THEN rnd_state ELSE state
        pkce == generate_pkce_pair(rnd_verifier)
    IN  [auth_url |->
            [base |-> AUTHORIZE_URL,
             client_id |-> oauth_app.client_id,
             response_type |-> "code",
             redirect_uri |-> oauth_app.redirect_uri,
             state |-> the_state,
             scope |-> IF Truthy(oauth_app.scopes) THEN oauth_app.scopes ELSE Missing,
             code_challenge |-> pkce.code_challenge,
             code_challenge_method |-> "S256"],
         code_verifier |-> pkce.code_verifier,
         state |-> the_state]

\* state: the caller's state or None; rnd_state, rnd_verifier: the random
\* draws.  The URL is kept as its base and its query parameters.
build_authorization_url(oauth_app, state, use_pkce, rnd_state, rnd_verifier) ==
    LET the_state == IF state = None THEN rnd_state ELSE state
        pkce == generate_pkce_pair(rnd_verifier)
    IN  [auth_url |->
            [base |-> AUTHORIZE_URL,
             client_id |-> oauth_app.client_id,
             response_type |-> "code",
             redirect_uri |-> oauth_app.redirect_uri,
             state |-> the_state,
             scope |-> IF Truthy(oauth_app.scopes) THEN oauth_app.scopes ELSE Missing,
             code_challenge |-> IF use_pkce THEN pkce.code_challenge ELSE Missing,
             code_challenge_method |-> IF use_pkce THEN "S256" ELSE Missing],
         code_verifier |-> IF use_pkce THEN pkce.code_verifier ELSE None,
         state |-> the_state]

\* the form posted by exchange_code_for_token
exchange_request(oauth_app, authorization_code, code_verifier) ==
    [grant_type |-> "authorization_code",
     code |-> authorization_code,
     redirect_uri |-> oauth_app.redirect_uri,
     code_verifier |-> IF Truthy(code_verifier) THEN code_verifier ELSE Missing,
     auth |-> <<oauth_app.client_id, oauth_app.client_secret>>]

(* ---------------------------- callback server -------------------------- *)
OAuthCallbackServer ==
    [callback_received |-> FALSE, authorization_code |-> None,
     state |-> None, error |-> None]

\* parse_qs(query).get(key, [None])[0]: parse_qs drops blank values
query_get(value) == IF value = Missing \/ value = "" THEN None ELSE value

\* do_GET without its last line
do_GET_unflagged(server, query) ==
    [callback_received |-> server.callback_received,
     authorization_code |-> query_get(query.code),
     state |-> query_get(query.state),
     error |-> query_get(query.error)]

do_GET(server, query) ==
    [callback_received |-> TRUE,
     authorization_code |-> query_get(query.code),
     state |-> query_get(query.state),
     error |-> query_get(query.error)]

\* the three checks between the wait loop and the token exchange
callback_accepted_any_state(server, state) ==
    ~Truthy(server.error) /\ Truthy(server.authorization_code)

callback_accepted(server, state) ==
    /\ ~Truthy(server.error)
    /\ Truthy(server.authorization_code)
    /\ server.state = state

TheOAuthApp == OAuthApp("cid", "csecret", "http://localhost:8080/callback", None)

(* ----------------------------- login command --------------------------- *)
\* sys.exit(e.exit_code) of the handlers at the end of the command
exit_code_of(exc_type) ==
    IF exc_type = BBCLIError THEN 1
    ELSE IF exc_type = AuthenticationError THEN 2
    ELSE IF exc_type = "APIError" THEN 3
    ELSE IF exc_type = ConfigurationError THEN 6
    ELSE 1

\* the command once it is past get_oauth_app(); server is the callback server
LoginRun(cmd, keyring_available, oauth_app, url, pc, exit_code, message) ==
    [pc |-> pc, cmd |-> cmd, keyring_available |-> keyring_available,
     oauth_app |-> oauth_app, auth_url |-> url.auth_url, state |-> url.state,
     code_verifier |-> url.code_verifier, server |-> OAuthCallbackServer,
     exchange_calls |-> <<>>, store_calls |-> <<>>, stored |-> FALSE,
     token |-> Null, exit_code |-> exit_code, message |-> message,
     before |-> <<kr_oauth_token, file_oauth_token>>]

\* "bbcli oauth login" and "bbcli auth login" up to the wait for the callback.
\* pw, kfail: passphrase typed and keyring failure while the app is read;
\* rnd_state, rnd_verifier: the random draws; bind_ok: the port is free
LoginStart(cmd, pw, kfail, rnd_state, rnd_verifier, bind_ok) ==
    /\ login.pc = "idle"
    /\ LET keyring_available == _check_keyring_availability
           stored_app == get_oauth_app(keyring_available, pw, kfail).value
           oauth_app == [stored_app EXCEPT !.redirect_uri = "http://localhost:8080/callback"]
           url == build_authorization_url(oauth_app, None, TRUE, rnd_state, rnd_verifier)
           no_url == [auth_url |-> Null, state |-> None, code_verifier |-> None]
       IN  IF stored_app = Null
           THEN /\ cmd = "oauth"
                /\ login' = LoginRun(cmd, keyring_available, Null, no_url, "done", 1,
                                     "OAuth app not configured. Run 'bbcli oauth setup' first.")
           ELSE IF ~bind_ok
           THEN login' = LoginRun(cmd, keyring_available, oauth_app, url, "done", 1,
                                  "OAuth authentication failed: OSError")
           ELSE login' = LoginRun(cmd, keyring_available, oauth_app, url, "waiting",
                                  NoInt, None)
    /\ last' = [op |-> "login_start"]
    /\ UNCHANGED <<now, keyring_works, keyring, files, environ, client, inflight, umask, config>>

\* one server.handle_request() of the wait loop: a GET runs do_GET, any other
\* method is answered 501 by BaseHTTPRequestHandler and the loop goes on
HandleRequest(method, query) ==
    /\ login.pc = "waiting"
    /\ ~login.server.callback_received
    /\ login' = IF method = "GET"
                THEN [login EXCEPT !.server = do_GET(login.server, query)]
                ELSE login
    /\ last' = [op |-> "handle_request", method |-> method, query |-> query]
    /\ UNCHANGED <<now, keyring_works, keyring, files, environ, client, inflight, umask, config>>

\* the command from server_close() to its exit.  resp: the token endpoint's
\* answer; store_fail, store_pw: store_oauth_token fails / the passphrase
\* typed for it; test_resp, pw_401: the answer to GET /user and the
\* passphrase typed if the 401 handler reads credentials.enc.
\* probes: what the keyring probe answered to each AuthManager the command
\* built: the one of its OAuthStorage, then the two of the test client
LoginFinish(resp, store_fail, store_pw, test_resp, pw_401) ==
    /\ login.pc = "waiting"
    /\ login.server.callback_received
    /\ LET server == login.server
           done(code, message) ==
               [login EXCEPT !.pc = "done", !.exit_code = code, !.message = message]
           exchanged == exchange_code_for_token(login.oauth_app, server.authorization_code,
                                                login.code_verifier, resp, now)
           request == exchange_request(login.oauth_app, server.authorization_code,
                                       login.code_verifier)
           token == exchanged.value
           api_client == BitbucketAPIClient(None, None, token.access_token, TRUE)
           tested == _make_request(api_client,
                                   [pw_token |-> pw_401, pw_creds |-> pw_401, kfail |-> FALSE],
                                   test_resp, pw_401, now).result
       IN  IF ~callback_accepted(server, login.state)
           THEN /\ login' = done(1,
                        IF Truthy(server.error)
                        THEN "OAuth authentication failed: " \o server.error
                        ELSE IF ~Truthy(server.authorization_code)
                        THEN "No authorization code received"
                        ELSE "Invalid state parameter - possible CSRF attack")
                /\ UNCHANGED <<kr_oauth_token, file_oauth_token>>
           ELSE IF Raised(exchanged)
           THEN /\ login' = [done(exit_code_of(exchanged.exc), exchanged.message)
                                EXCEPT !.exchange_calls = <<request>>]
                /\ UNCHANGED <<kr_oauth_token, file_oauth_token>>
           ELSE IF store_fail
           THEN /\ login' = [done(1, "Failed to store access token")
                                EXCEPT !.exchange_calls = <<request>>,
                                       !.store_calls = <<token>>, !.token = token]
                /\ UNCHANGED <<kr_oauth_token, file_oauth_token>>
           ELSE /\ login' = [(IF Raised(tested)
                              THEN done(exit_code_of(tested.exc.type), tested.exc.message)
                              ELSE done(0, "OAuth 2.0 authentication successful!"))
                                EXCEPT !.exchange_calls = <<request>>,
                                       !.store_calls = <<token>>, !.token = token,
                                       !.stored = TRUE]
                /\ IF login.keyring_available
                   THEN /\ kr_oauth_token' = json_dumps(to_dict(token))
                        /\ UNCHANGED file_oauth_token
                   ELSE /\ file_oauth_token' =
                               _encrypt_data(json_dumps(to_dict(token)), store_pw)
                        /\ UNCHANGED kr_oauth_token
    /\ last' = [op |-> "login_finish",
                probes |-> <<login.keyring_available>> \o
                    (IF /\ callback_accepted(login.server, login.state)
                        /\ ~Raised(exchange_code_for_token(login.oauth_app,
                                       login.server.authorization_code,
                                       login.code_verifier, resp, now))
                        /\ ~store_fail
                     THEN LET api_client == BitbucketAPIClient(None, None, None, TRUE)
                          IN  <<api_client.auth_keyring_available,
                                api_client.oauth_keyring_available>>
                     ELSE <<>>)]
    /\ UNCHANGED <<now, keyring_works, kr_username, kr_app_secret, kr_oauth_app,
                   file_credentials, file_oauth_app, environ, client, inflight, umask, config>>
    /\ FileModesAfter({})

\* "bbcli auth login" when no OAuth app is stored: _setup_basic_auth.
\* username, app_password: what the user types; test_resp: the answer to
\* GET /user; master_password, kfail, ffail: as in StoreCredentials
LoginBasicFallback(pw, username, app_password, test_resp, master_password, kfail, ffail) ==
    /\ login.pc = "idle"
    /\ get_oauth_app(_check_keyring_availability, pw, FALSE).value = Null
    /\ LET keyring_available == _check_keyring_availability
           no_url == [auth_url |-> Null, state |-> None, code_verifier |-> None]
           done(code, message) ==
               LoginRun("auth", keyring_available, Null, no_url, "done", code, message)
           api_client == BitbucketAPIClient(username, app_password, None, FALSE)
           tested == _make_request(api_client,
                                   [pw_token |-> pw, pw_creds |-> pw, kfail |-> FALSE],
                                   test_resp, pw, now).result
       IN  IF ~Truthy(username) \/ ~Truthy(app_password)
           THEN /\ login' = done(1, "Username and App Password are required")
                /\ UNCHANGED <<kr_username, kr_app_secret, file_credentials>>
           ELSE IF Raised(tested)
           THEN /\ login' = IF tested.exc.type = AuthenticationError
                            THEN done(1, "Authentication failed. Please check your username and App Password.")
                            ELSE done(exit_code_of(tested.exc.type), tested.exc.message)
                /\ UNCHANGED <<kr_username, kr_app_secret, file_credentials>>
           ELSE IF keyring_available /\ kfail = 0
           THEN /\ kr_username' = username
                /\ kr_app_secret' = app_password
                /\ file_credentials' = Null
                /\ login' = done(0, "Basic authentication setup complete!")
           ELSE /\ kr_username' = IF keyring_available /\ kfail = 2
                                  THEN username ELSE kr_username
                /\ UNCHANGED kr_app_secret
                /\ IF ffail
                   THEN /\ UNCHANGED file_credentials
                        /\ login' = done(exit_code_of(ConfigurationError),
                                         "Failed to store credentials")
                   ELSE /\ file_credentials' =
                               _encrypt_credentials(username, app_password, master_password)
                        /\ login' = done(0, "Basic authentication setup complete!")
    /\ last' = [op |-> "login_basic_fallback"]
    /\ UNCHANGED <<now, keyring_works, kr_oauth_app, kr_oauth_token,
                   file_oauth_app, file_oauth_token, environ, client, inflight, umask, config>>
    /\ FileModesAfter(IF file_credentials' \notin {Null, file_credentials}
                      THEN {"credentials.enc"} ELSE {})

(* ------------------------ specification: the login --------------------- *)
\* the query strings a request to the callback server can carry
Queries ==
    [code : {Missing, "", "code1"}, state : {Missing, "s1", "s2"},
     error : {Missing, "access_denied"}]

\* the token endpoint's answers to the exchange
ExchangeResponses ==
    {r \in TokenResponses :
        /\ r.body.refresh_token # None
        /\ r.body.error_description = Missing
        /\ r.body.access_token = Missing =>
               (r.body.expires_in = NoInt /\ r.body.refresh_token = Missing)}

\* the answers to GET /user
TestResponses ==
    {r \in Responses : /\ (r.kind = "ConnectionError" \/ r.status_code \in {200, 401})
                        /\ r.body = NoBody}

LoginInputs ==
    IF keyring_works
    THEN [pw : {"pw1"}, kfail : BOOLEAN]
    ELSE [pw : Passphrases, kfail : {FALSE}]

InitLogin ==
    /\ now = 0
    /\ keyring_works \in BOOLEAN
    /\ EmptyStores
    /\ environ = [BBCLI_USERNAME |-> None, BBCLI_PASSWORD |-> None,
                  BBCLI_OAUTH_TOKEN |-> None]
    /\ client = Null
    /\ login = NoLogin
    /\ inflight = NoRequest
    /\ umask = DefaultUmask
    /\ file_mode = NoModes
    /\ config = NoConfig
    /\ last = [op |-> "start"]

NextLogin ==
    \/ StoreOAuthApp(TheOAuthApp, "pw1", FALSE)
    \/ /\ login.pc = "idle"
       /\ StoreOAuthToken(StoredToken(120, now), "pw1", FALSE)
    \/ \E cmd \in {"auth", "oauth"}, inp \in LoginInputs, rnd_state \in {"s1", "s2"},
          bind_ok \in BOOLEAN :
            LoginStart(cmd, inp.pw, inp.kfail, rnd_state, "v1", bind_ok)
    \/ \E inp \in LoginInputs, username \in {"", "buser"}, test_resp \in TestResponses,
          kfail \in 0 .. 2, ffail \in BOOLEAN :
            LoginBasicFallback(inp.pw, username, "bpass", test_resp, "pw1", kfail, ffail)
    \/ \E method \in {"GET", "POST"}, query \in Queries : HandleRequest(method, query)
    \/ \E resp \in ExchangeResponses, store_fail \in BOOLEAN, inp \in LoginInputs,
          test_resp \in TestResponses :
            LoginFinish(resp, store_fail, inp.pw, test_resp, "pw1")
    \/ \E inp \in LoginInputs : GetValidToken(inp.pw, inp.kfail)
    \/ Tick

SpecLogin == InitLogin /\ [][NextLogin]_vars

(* ----------------------------- claims: login --------------------------- *)
\* C7: the login command exchanges the code and stores a token only if the
\* callback carried no error, a non-empty code and a state equal to the
\* state the command generated; on a state mismatch it fails with no token
\* exchange and no store.
C7_ExchangeOnlyWhenAccepted ==
    login.pc = "done" =>
        LET server == login.server
            accepted == /\ server.callback_received
                        /\ ~Truthy(server.error)
                        /\ Truthy(server.authorization_code)
                        /\ server.state = login.state
        IN  /\ (login.exchange_calls # <<>> \/ login.store_calls # <<>>) =>
                   (accepted /\ login.exchange_calls[1].code = server.authorization_code)
            /\ (server.callback_received /\ server.state # login.state) =>
                   /\ login.exchange_calls = <<>>
                   /\ login.store_calls = <<>>
                   /\ login.exit_code # 0
                   /\ <<kr_oauth_token, file_oauth_token>> = login.before

\* a finished login whose callback had a code, no error and a foreign state
C7_Witness ==
    /\ login.pc = "done"
    /\ login.server.callback_received
    /\ login.server.authorization_code = "code1"
    /\ login.server.error = None
    /\ login.server.state = "s2"
    /\ login.state = "s1"
    /\ login.exit_code = 1
    /\ login.exchange_calls = <<>>

\* a get_valid_token() call after a login that exchanged and stored a token,
\* the read itself succeeding (keyring answered, file decrypted)
ReadAfterLogin ==
    /\ last.op = "get_valid_token"
    /\ login.pc = "done"
    /\ login.stored
    /\ ~last.read_failed

RefreshTokens == {"rold1", "rold2"}

RefreshAccessToken(refresh_token, resp) ==
    /\ last' = [op |-> "refresh_access_token",
                refresh_token |-> refresh_token,
                resp |-> resp,
                result |-> refresh_access_token(TheOAuthApp, refresh_token, resp, now)]
    /\ UNCHANGED <<now, keyring_works, keyring, files, environ, client, login, inflight, umask, config>>

InitRefresh ==
    /\ now = 0
    /\ keyring_works \in BOOLEAN
    /\ EmptyStores
    /\ environ = [BBCLI_USERNAME |-> None, BBCLI_PASSWORD |-> None,
                  BBCLI_OAUTH_TOKEN |-> None]
    /\ client = Null
    /\ login = NoLogin
    /\ inflight = NoRequest
    /\ umask = DefaultUmask
    /\ file_mode = NoModes
    /\ config = NoConfig
    /\ last = [op |-> "start"]

NextRefresh ==
    \/ \E refresh_token \in RefreshTokens, resp \in TokenResponses :
          RefreshAccessToken(refresh_token, resp)
    \/ Tick

SpecRefresh == InitRefresh /\ [][NextRefresh]_vars

(* --------------------------- claims: token refresh --------------------- *)
\* C9: a successful refresh_access_token returns a token whose refresh_token
\* is the provider's new refresh token when the response carries one and the
\* caller's refresh token otherwise, so the returned token always has a
\* refresh token.
C9_RefreshTokenPreserved ==
    (last.op = "refresh_access_token" /\ ~Raised(last.result)) =>
        LET returned == last.resp.body.refresh_token
            new_one == returned # Missing /\ returned # None
        IN  /\ last.result.value.refresh_token =
                  IF new_one THEN returned ELSE last.refresh_token
            /\ last.result.value.refresh_token # None

(* ------------------------ claims: store failures ----------------------- *)
\* C11: no store operation of either store (store_credentials,
\* store_oauth_app, store_oauth_token) raises when the underlying storage
\* fails; each returns a false/None result instead.
C11_StoreNeverRaises ==
    /\ last.op \in {"store_oauth_app", "store_oauth_token"} => last.result \in BOOLEAN
    /\ last.op = "store_credentials" => ~Raised(last.result)

\* the part of C11 that the code keeps: the two OAuthStorage stores
C11_OAuthStoresFailSoft ==
    last.op \in {"store_oauth_app", "store_oauth_token"} => last.result \in BOOLEAN

(* -------------------- specification: error responses ------------------- *)
ErrorEnvironments ==
    {[BBCLI_USERNAME |-> up[1], BBCLI_PASSWORD |-> up[2], BBCLI_OAUTH_TOKEN |-> tok] :
        up \in {<<None, None>>, <<"euser", "epass">>}, tok \in {None, "etok"}}

InitErrors ==
    /\ now = 0
    /\ keyring_works \in BOOLEAN
    /\ EmptyStores
    /\ environ \in ErrorEnvironments
    /\ client = Null
    /\ login = NoLogin
    /\ inflight = NoRequest
    /\ umask = DefaultUmask
    /\ file_mode = NoModes
    /\ config = NoConfig
    /\ last = [op |-> "start"]

\* one process: its client, the two stores being filled, and requests that
\* meet any response; the passphrase typed in the 401 handler is the one
\* typed for the header
NextErrors ==
    \/ /\ client = Null
       /\ \E up \in {<<None, None>>, <<"cuser", "cpass">>, <<"cuser", None>>},
             tok \in {None, "ctok"}, prefer \in BOOLEAN :
               NewClient(up[1], up[2], tok, prefer)
    \/ StoreOAuthToken(StoredToken(120, now), "pw1", FALSE)
    \/ StoreCredentials("suser", "spass", "pw1", 0, FALSE)
    \/ \E inp \in ResolverInputs, resp \in Responses :
          /\ inp.pw_token = inp.pw_creds
          /\ MakeRequest(inp, resp, inp.pw_creds)

SpecErrors == InitErrors /\ [][NextErrors]_vars

(* ------------------------ claims: error responses ---------------------- *)
\* a request that was sent and answered 401
Answered401 ==
    /\ last.op = "_make_request"
    /\ last.sent
    /\ last.response.kind = "response"
    /\ last.response.status_code = 401

\* C12: on a 401, when has_credentials() is false the AuthenticationError
\* says "No authentication credentials found", and when the constructor was
\* given a username and a password it says "provided credentials".
C12_UnauthorizedMessages ==
    Answered401 =>
        /\ last.result.exc.type = AuthenticationError
        /\ last.has_credentials = Ok(FALSE) =>
               last.result.exc.message = "No authentication credentials found."
        /\ (Truthy(client._provided_username) /\ Truthy(client._provided_password)) =>
               last.result.exc.message = "Authentication failed with provided credentials."

\* a 401 for a client with nothing to present
C12_Witness ==
    /\ Answered401
    /\ last.has_credentials = Ok(FALSE)
    /\ last.header = None
    /\ last.result.exc.message = "No authentication credentials found."

\* C13: on every 401 the message names the source of the credential that was
\* presented on the request, bearer token or basic pair: "no credentials
\* found" only when none was sent, "provided" only for the constructor's,
\* "environment variable" only for the environment's, "stored" only for a
\* stored one.
C13_MessageNamesPresentedSource ==
    Answered401 =>
        LET message == last.result.exc.message
        IN  /\ message = "No authentication credentials found." =>
                   last.source = "none"
            /\ message = "Authentication failed with provided credentials." =>
                   last.source = "provided"
            /\ message = "Authentication failed with environment variable credentials." =>
                   last.source = "environment"
            /\ message = "Authentication failed with stored credentials." =>
                   last.source = "stored"

\* a request that was sent and answered with the status `code`
Answered(code) ==
    /\ last.op = "_make_request"
    /\ last.sent
    /\ last.response.kind = "response"
    /\ last.response.status_code = code

\* C14: a 429 always ends in an APIError with status code 429 whose message
\* and suggestion carry the Retry-After value, or 60 when the header is
\* absent; nothing else comes out of a 429.
C14_RateLimitError ==
    Answered(429) =>
        /\ last.result.exc.type = "APIError"
        /\ last.result.exc.status_code = 429
        /\ last.response.retry_after = None =>
               /\ last.result.exc.message = "Rate limit exceeded. Retry after 60 seconds."
               /\ last.result.exc.suggestion = "Wait 60 seconds before retrying"
        /\ last.response.retry_after = "30" =>
               /\ last.result.exc.message = "Rate limit exceeded. Retry after 30 seconds."
               /\ last.result.exc.suggestion = "Wait 30 seconds before retrying"

\* the part of C14 that the code keeps: Retry-After absent or in seconds
C14_RateLimitErrorSeconds ==
    (Answered(429) /\ last.response.retry_after \in {None, "30"}) =>
        /\ last.result.exc.type = "APIError"
        /\ last.result.exc.status_code = 429

\* C15: every response outside 2xx other than 401 and 429 raises an APIError
\* with that status code, its message from the JSON error envelope when the
\* body parses and "HTTP <code>: <reason>" when it does not; such a response
\* is never returned to the caller.
C15_NonSuccessRaisesAPIError ==
    (/\ last.op = "_make_request"
     /\ last.sent
     /\ last.response.kind = "response"
     /\ last.response.status_code \notin 200 .. 299
     /\ last.response.status_code \notin {401, 429}) =>
        /\ Raised(last.result)
        /\ last.result.exc.type = "APIError"
        /\ last.result.exc.status_code = last.response.status_code
        /\ last.response.body = "envelope" =>
               last.result.exc.message = "Repository not found"
        /\ last.response.body = "unparseable" =>
               last.result.exc.message = status_line(last.response.status_code)

\* the part of C15 that the code keeps: 4xx/5xx with the error envelope, an
\* object without "error", or no JSON at all
C15_ClientServerErrors ==
    (/\ last.op = "_make_request"
     /\ last.sent
     /\ last.response.kind = "response"
     /\ last.response.status_code \in 400 .. 599
     /\ last.response.status_code \notin {401, 429}
     /\ last.response.body # "error_string") =>
        /\ Raised(last.result)
        /\ last.result.exc.type = "APIError"
        /\ last.result.exc.status_code = last.response.status_code

(* ------------------------- the session's retries ----------------------- *)
\* api.max_retries of the configuration (default 3)
MaxRetries == 2

Methods == {"GET", "HEAD", "OPTIONS", "POST", "PUT", "DELETE"}

\* Retry(total=max_retries, status_forcelist=..., allowed_methods=...)
status_forcelist == {429, 500, 502, 503, 504}
allowed_methods == {"HEAD", "GET", "OPTIONS"}

\* urllib3's list of statuses retried when they carry Retry-After
RETRY_AFTER_STATUS_CODES == {413, 429, 503}

\* what one attempt of the adapter can meet: the connection is not
\* established (nothing goes out), the request goes out and no response is
\* read, or a response arrives
AttemptOutcomes ==
    [kind : {"connect_error", "read_error"}, status_code : {0}, retry_after : {None}]
        \cup [kind : {"response"}, status_code : {200, 404, 500}, retry_after : {None}]
        \cup [kind : {"response"}, status_code : {413, 429, 503},
              retry_after : {None, "30"}]

\* the method is not looked at
is_retry_any_method(method, status_code, has_retry_after, total) ==
    \/ status_code \in status_forcelist
    \/ (total > 0 /\ has_retry_after /\ status_code \in RETRY_AFTER_STATUS_CODES)

\* Retry.is_retry as the mounted strategy answers it
is_retry(method, status_code, has_retry_after, total) ==
    /\ method \in allowed_methods
    /\ \/ status_code \in status_forcelist
       \/ (total > 0 /\ has_retry_after /\ status_code \in RETRY_AFTER_STATUS_CODES)

\* whether the strategy makes another attempt after `outcome`: a failure to
\* connect counts against total for every method, a failure to read only
\* for the allowed methods
wants_retry(method, outcome, total) ==
    IF outcome.kind = "connect_error" THEN TRUE
    ELSE IF outcome.kind = "read_error" THEN method \in allowed_methods
    ELSE is_retry(method, outcome.status_code, outcome.retry_after # None, total)

\* what session.request hands to _make_request when no further attempt is
\* made: the response, or the requests exception the adapter raises
final_outcome(method, outcome, total) ==
    LET failure(kind) == [kind |-> kind, status_code |-> 0, retry_after |-> None,
                          body |-> NoBody]
    IN  IF outcome.kind = "connect_error" THEN failure("Timeout")
        ELSE IF outcome.kind = "read_error"
        THEN IF method \in allowed_methods THEN failure("ConnectionError")
             ELSE failure("Timeout")
        ELSE IF wants_retry(method, outcome, total) THEN failure("RetryError")
        ELSE [kind |-> "response", status_code |-> outcome.status_code,
              retry_after |-> outcome.retry_after, body |-> NoBody]

\* _make_request up to session.request: the header is resolved, the call is
\* handed to the session
StartRequest(method, inp) ==
    /\ client # Null
    /\ inflight.pc # "sending"
    /\ LET auth == request_authorization(client, inp, now)
       IN  IF Raised(auth)
           THEN inflight' = [pc |-> "done", method |-> method, total |-> MaxRetries,
                             sends |-> 0, transmitted |-> 0, causes |-> {},
                             result |-> Raise([type |-> AuthenticationError,
                                               message |-> "Failed to decrypt stored credentials",
                                               status_code |-> 0])]
           ELSE inflight' = [pc |-> "sending", method |-> method, total |-> MaxRetries,
                             sends |-> 0, transmitted |-> 0, causes |-> {},
                             result |-> Null]
    /\ last' = [op |-> "start_request"]
    /\ UNCHANGED <<now, keyring_works, keyring, files, environ, client, login, umask, config>>

\* one attempt of the adapter.  When the strategy has retries left for the
\* outcome it sleeps and the next attempt follows; otherwise session.request
\* returns or raises and _make_request classifies the outcome
Attempt(outcome, pw_401) ==
    /\ inflight.pc = "sending"
    /\ LET went_out == IF outcome.kind = "connect_error" THEN 0 ELSE 1
           again == wants_retry(inflight.method, outcome, inflight.total)
                        /\ inflight.total - 1 >= 0
           counted == [inflight EXCEPT !.sends = @ + 1, !.transmitted = @ + went_out]
       IN  IF again
           THEN inflight' = [counted EXCEPT !.total = @ - 1,
                                            !.causes = @ \cup {[kind |-> outcome.kind,
                                                 status_code |-> outcome.status_code,
                                                 has_retry_after |-> outcome.retry_after # None]}]
           ELSE inflight' = [counted EXCEPT
                                !.pc = "done",
                                !.result = classify_response(client,
                                    final_outcome(inflight.method, outcome, inflight.total),
                                    pw_401, FALSE)]
    /\ last' = [op |-> "attempt", outcome |-> outcome]
    /\ UNCHANGED <<now, keyring_works, keyring, files, environ, client, login, umask, config>>

(* ----------------------- specification: the retries -------------------- *)
InitRetries ==
    /\ now = 0
    /\ keyring_works \in BOOLEAN
    /\ EmptyStores
    /\ environ = [BBCLI_USERNAME |-> None, BBCLI_PASSWORD |-> None,
                  BBCLI_OAUTH_TOKEN |-> None]
    /\ client = Null
    /\ login = NoLogin
    /\ inflight = NoRequest
    /\ umask = DefaultUmask
    /\ file_mode = NoModes
    /\ config = NoConfig
    /\ last = [op |-> "start"]

NextRetries ==
    \/ /\ client = Null
       /\ \E tok \in {None, "ctok"} : NewClient(None, None, tok, TRUE)
    \/ \E method \in Methods :
          StartRequest(method, [pw_token |-> "pw1", pw_creds |-> "pw1", kfail |-> FALSE])
    \/ \E outcome \in AttemptOutcomes : Attempt(outcome, "pw1")

SpecRetries == InitRetries /\ [][NextRetries]_vars

(* --------------------------- claims: the retries ----------------------- *)
\* the outcomes named by the retry configuration: a response whose status
\* is in status_forcelist
ForcelistResponse(cause) ==
    cause.kind = "response" /\ cause.status_code \in status_forcelist

C16_WitnessPost ==
    /\ inflight.pc = "done"
    /\ inflight.method = "POST"
    /\ inflight.sends = 1
    /\ last.op = "attempt"
    /\ last.outcome.status_code = 500

(* --------------------- specification: token endpoint ------------------- *)
\* client_credentials_flow: the same try block with its own messages and no
\* refresh token
client_credentials_flow(oauth_app, resp, t) ==
    LET network(e) ==
            RaiseMsg(AuthenticationError,
                     "Network error during client credentials flow: " \o e)
    IN  IF resp.raised THEN network("ConnectionError")
        ELSE IF ~resp.ok /\ ~resp.body.parses
        THEN network("OAuth client credentials flow failed: "
                        \o dict_get(Missing, "Client credentials authentication failed"))
        ELSE IF ~resp.body.parses THEN network("JSONDecodeError")
        ELSE IF resp.body.access_token = Missing THEN network("'access_token'")
        ELSE Ok(OAuthToken(resp.body.access_token, "bearer", resp.body.expires_in,
                           None, None, NoInt, t))

ExchangeCodeForToken(authorization_code, code_verifier, resp) ==
    /\ last' = [op |-> "exchange_code_for_token",
                resp |-> resp,
                result |-> exchange_code_for_token(TheOAuthApp, authorization_code,
                                                   code_verifier, resp, now)]
    /\ UNCHANGED <<now, keyring_works, keyring, files, environ, client, login, inflight, umask, config>>

ClientCredentialsFlow(resp) ==
    /\ last' = [op |-> "client_credentials_flow",
                resp |-> resp,
                result |-> client_credentials_flow(TheOAuthApp, resp, now)]
    /\ UNCHANGED <<now, keyring_works, keyring, files, environ, client, login, inflight, umask, config>>

NextTokenEndpoint ==
    \/ \E resp \in TokenResponses : ExchangeCodeForToken("code1", "v1", resp)
    \/ \E resp \in TokenResponses : RefreshAccessToken("rold1", resp)
    \/ \E resp \in TokenResponses : ClientCredentialsFlow(resp)
    \/ Tick

SpecTokenEndpoint == InitRefresh /\ [][NextTokenEndpoint]_vars

(* -------------------------- claims: token endpoint --------------------- *)
\* the generic failure message of each flow
GenericFailure(op) ==
    IF op = "exchange_code_for_token" THEN "Token exchange failed"
    ELSE IF op = "refresh_access_token" THEN "Token refresh failed"
    ELSE "Client credentials authentication failed"

\* the messages of flow `op` that carry `text`
Carrying(op, text) ==
    LET failed == IF op = "exchange_code_for_token" THEN "OAuth token exchange failed: "
                  ELSE IF op = "refresh_access_token" THEN "OAuth token refresh failed: "
                  ELSE "OAuth client credentials flow failed: "
        network == IF op = "exchange_code_for_token"
                   THEN "Network error during token exchange: "
                   ELSE IF op = "refresh_access_token"
                   THEN "Network error during token refresh: "
                   ELSE "Network error during client credentials flow: "
    IN  {failed \o text, network \o failed \o text, network \o text}

\* C17: a token-endpoint response that is not ok never yields an OAuthToken:
\* exchange_code_for_token, refresh_access_token and client_credentials_flow
\* raise an AuthenticationError whose message carries the body's
\* error_description, or the generic failure message when none can be parsed.
C17_TokenEndpointErrors ==
    (/\ last.op \in {"exchange_code_for_token", "refresh_access_token",
                     "client_credentials_flow"}
     /\ ~last.resp.raised
     /\ ~last.resp.ok) =>
        /\ Raised(last.result)
        /\ last.result.exc = AuthenticationError
        /\ last.result.message \in
               Carrying(last.op,
                        IF last.resp.body.parses
                              /\ last.resp.body.error_description # Missing
                        THEN last.resp.body.error_description
                        ELSE GenericFailure(last.op))

\* the part of C17 that the code keeps: an error answer that is not JSON
C17_UnparseableErrors ==
    (/\ last.op \in {"exchange_code_for_token", "refresh_access_token",
                     "client_credentials_flow"}
     /\ ~last.resp.raised
     /\ ~last.resp.ok
     /\ ~last.resp.body.parses) =>
        /\ Raised(last.result)
        /\ last.result.exc = AuthenticationError
        /\ last.result.message \in Carrying(last.op, GenericFailure(last.op))

(* ------------------------- claims: single profile ---------------------- *)
\* how many of the given places hold a record
Count(held) == Cardinality({i \in DOMAIN held : held[i]})

\* the Credentials records in storage: the keyring pair and credentials.enc
StoredCredentialsRecords ==
    Count(<<kr_username # None /\ kr_app_secret # None, file_credentials # Null>>)

\* the OAuth app registrations: the keyring entry and oauth_app.enc
StoredOAuthAppRecords ==
    Count(<<kr_oauth_app # Null, file_oauth_app # Null>>)

\* the OAuth tokens: the keyring entry and oauth_token.enc
StoredOAuthTokenRecords ==
    Count(<<kr_oauth_token # Null, file_oauth_token # Null>>)

\* C18: after any sequence of store and delete operations at most one
\* Credentials record, one OAuth app registration and one OAuth token exist,
\* counting the keyring and the fallback files together.
C18_AtMostOneRecord ==
    /\ StoredCredentialsRecords <= 1
    /\ StoredOAuthAppRecords <= 1
    /\ StoredOAuthTokenRecords <= 1

(* --------------------------- claims: migration ------------------------- *)
\* C19: when the keyring is selected and credentials.enc exists,
\* store_credentials deletes the file only after both new values were written
\* to the keyring; if a keyring write fails the file is not deleted.
C19_FallbackDeletedAfterNativeWrite ==
    (/\ last.op = "store_credentials"
     /\ last.keyring_available
     /\ last.file_before # Null) =>
        /\ file_credentials = Null =>
              /\ last.native_written
              /\ kr_username = last.username
              /\ kr_app_secret = last.app_password
        /\ ~last.native_written => file_credentials # Null

\* a migration: the file existed, the keyring took the new pair, the file is gone
C19_Witness ==
    /\ last.op = "store_credentials"
    /\ last.keyring_available
    /\ last.file_before # Null
    /\ last.native_written
    /\ kr_username = last.username
    /\ kr_app_secret = last.app_password
    /\ file_credentials = Null

\* a failed migration: a keyring write raised and the fallback write raised
\* too, the file is still the one found
C19_WitnessNativeFailure ==
    /\ last.op = "store_credentials"
    /\ last.keyring_available
    /\ last.file_before # Null
    /\ ~last.native_written
    /\ Raised(last.result)
    /\ file_credentials = last.file_before

(* --------------------- specification: one login process ---------------- *)
\* a login command; the keyring service may start or stop answering while it
\* runs (the wait for the browser lasts up to the callback timeout)
NextProcess ==
    \/ /\ login.pc = "idle"
       /\ StoreOAuthApp(TheOAuthApp, "pw1", FALSE)
    \/ \E cmd \in {"auth", "oauth"}, inp \in LoginInputs, rnd_state \in {"s1", "s2"},
          bind_ok \in BOOLEAN :
            LoginStart(cmd, inp.pw, inp.kfail, rnd_state, "v1", bind_ok)
    \/ /\ login.pc = "waiting"
       /\ KeyringChange
    \/ \E method \in {"GET", "POST"}, query \in Queries : HandleRequest(method, query)
    \/ \E resp \in ExchangeResponses, store_fail \in BOOLEAN, inp \in LoginInputs,
          test_resp \in TestResponses :
            LoginFinish(resp, store_fail, inp.pw, test_resp, "pw1")
    \/ Tick

SpecProcess == InitLogin /\ [][NextProcess]_vars

(* ------------------------ claims: backend selection -------------------- *)
\* C20: the backend is selected once per process: every AuthManager the
\* process builds (for its vault and for its token store) got the same answer
\* from the keyring probe, so all its operations use the same backend.
C20_BackendSelectedOnce ==
    last.op = "login_finish" =>
        \A i, j \in DOMAIN last.probes : last.probes[i] = last.probes[j]

\* what the code keeps: the selection of one store object never changes, the
\* command's OAuthStorage stores the token in the backend it selected when
\* it was built
C20_SelectionFixedPerObject ==
    [][login.pc = "waiting" =>
          /\ login'.keyring_available = login.keyring_available
          /\ (kr_oauth_token' # kr_oauth_token => login.keyring_available)
          /\ (file_oauth_token' # file_oauth_token => ~login.keyring_available)]_vars

(* --------------------------- claims: the wait loop --------------------- *)
\* C21: the wait accepts exactly one callback: requests are served only while
\* callback_received is unset, a GET sets it and leaves its own code, state
\* and error on the server, any other request leaves the server as it was,
\* and once the flag is set no request is served: the values the command
\* goes on with are those of the GET that ended the wait.
C21_OneCallbackAccepted ==
    [][/\ last'.op = "handle_request" =>
            /\ ~login.server.callback_received
            /\ IF last'.method = "GET"
               THEN login'.server =
                       [callback_received |-> TRUE,
                        authorization_code |-> query_get(last'.query.code),
                        state |-> query_get(last'.query.state),
                        error |-> query_get(last'.query.error)]
               ELSE login'.server = login.server
       /\ (login.pc # "idle" /\ login.server.callback_received) =>
            /\ login'.server = login.server
            /\ login'.exchange_calls # <<>> =>
                  login'.exchange_calls[1].code = login.server.authorization_code
     ]_vars

\* a POST was served first, then the GET that ended the wait; the command
\* finished with the code of that GET
C21_Witness ==
    /\ login.pc = "done"
    /\ login.server.callback_received
    /\ login.server.authorization_code = "code1"
    /\ login.exchange_calls # <<>>
    /\ login.exchange_calls[1].code = "code1"
    /\ login.exit_code = 0

(* ----------------------- specification: exit codes --------------------- *)
\* main(): handle_exception exits with exc.exit_code of a BBCLIError
handle_exception(exc_type) == exit_code_of(exc_type)

\* "bbcli auth logout".  pw, kfail: as in get_credentials; confirm: the answer
\* to click.confirm.  Any exception of the body is re-raised as a plain
\* BBCLIError, which main() turns into the exit code.
\* failed_with: the exception the body ended with, None when it returned
Logout(pw, kfail, confirm) ==
    LET keyring_available == _check_keyring_availability
        credentials == get_credentials(keyring_available, pw, kfail)
    IN  /\ IF Raised(credentials)
           THEN /\ last' = [op |-> "logout", failed_with |-> credentials.exc,
                            exit_code |-> handle_exception(BBCLIError)]
                /\ UNCHANGED <<kr_username, kr_app_secret, file_credentials>>
           ELSE /\ last' = [op |-> "logout", failed_with |-> None, exit_code |-> 0]
                /\ IF credentials.value = Null \/ ~confirm
                   THEN UNCHANGED <<kr_username, kr_app_secret, file_credentials>>
                   ELSE /\ IF keyring_available /\ kr_username # None
                           THEN /\ kr_username' = None
                                /\ kr_app_secret' = None
                           ELSE UNCHANGED <<kr_username, kr_app_secret>>
                        /\ file_credentials' = Null
        /\ UNCHANGED <<now, keyring_works, kr_oauth_app, kr_oauth_token,
                       file_oauth_app, file_oauth_token, environ, client, login, inflight, umask, config>>
        /\ FileModesAfter({})

\* a command of the api groups: the error of the request reaches main()
ApiCommand(inp, resp, pw_401) ==
    /\ client # Null
    /\ LET r == _make_request(client, inp, resp, pw_401, now).result
       IN  last' = [op |-> "api_command",
                    failed_with |-> IF Raised(r) THEN r.exc.type ELSE None,
                    exit_code |-> IF Raised(r) THEN handle_exception(r.exc.type) ELSE 0]
    /\ UNCHANGED <<now, keyring_works, keyring, files, environ, client, login, inflight, umask, config>>

NextCommands ==
    \/ KeyringChange
    \/ \E kfail \in 0 .. 2, ffail \in BOOLEAN :
          StoreCredentials("suser", "spass", "pw1", kfail, ffail)
    \/ DamageFile("credentials.enc")
    \/ /\ client = Null
       /\ NewClient(None, None, None, TRUE)
    \/ \E inp \in StorageInputs, confirm \in BOOLEAN : Logout(inp.pw, inp.kfail, confirm)
    \/ \E inp \in ResolverInputs, resp \in Responses : ApiCommand(inp, resp, "pw1")
    \/ Tick

SpecCommands == InitStorage /\ [][NextCommands]_vars

(* ---------------------------- claims: exit codes ----------------------- *)
\* C22: a command that fails with a structured error exits with that error's
\* declared code: 2 for AuthenticationError, 3 for APIError, 4 for
\* ValidationError, 6 for ConfigurationError, on every command path.
C22_ExitCodeOfStructuredError ==
    last.op \in {"logout", "api_command"} =>
        /\ last.failed_with = AuthenticationError => last.exit_code = 2
        /\ last.failed_with = "APIError" => last.exit_code = 3
        /\ last.failed_with = "ValidationError" => last.exit_code = 4
        /\ last.failed_with = ConfigurationError => last.exit_code = 6

\* the paths on which the error reaches main() unchanged keep the declared code
C22_PropagatedErrorsKeepCode ==
    last.op = "api_command" =>
        /\ last.failed_with = AuthenticationError => last.exit_code = 2
        /\ last.failed_with = "APIError" => last.exit_code = 3

(* ------------------- specification: the authorization URL -------------- *)
BuildAuthorizationUrl(oauth_app, state, use_pkce, rnd_state, rnd_verifier) ==
    /\ last' = [op |-> "build_authorization_url",
                state |-> state,
                use_pkce |-> use_pkce,
                result |-> build_authorization_url(oauth_app, state, use_pkce,
                                                   rnd_state, rnd_verifier)]
    /\ UNCHANGED <<now, keyring_works, keyring, files, environ, client, login, inflight, umask, config>>

NextAuthorizeUrl ==
    \/ \E client_id \in {"cid", "cid2"}, scopes \in {None, "", "repository"},
          state \in {None, "", "s1", "s2"}, use_pkce \in BOOLEAN,
          rnd_state \in {"r1", "r2"}, rnd_verifier \in {"v1", "v2"} :
            BuildAuthorizationUrl(
                OAuthApp(client_id, "csecret", "http://localhost:8080/callback", scopes),
                state, use_pkce, rnd_state, rnd_verifier)
    \/ Tick

SpecAuthorizeUrl == InitRefresh /\ [][NextAuthorizeUrl]_vars

(* ----------------------- claims: the authorization URL ----------------- *)
\* C23: without PKCE the URL has no code_challenge and the verifier is None;
\* with PKCE the URL has code_challenge and code_challenge_method=S256 and the
\* verifier is not None; the returned state is the one in the URL, and it is
\* the supplied state when one was given.
C23_PkceParameters ==
    last.op = "build_authorization_url" =>
        LET url == last.result.auth_url
        IN  /\ ~last.use_pkce =>
                  /\ url.code_challenge = Missing
                  /\ last.result.code_verifier = None
            /\ last.use_pkce =>
                  /\ url.code_challenge # Missing
                  /\ url.code_challenge_method = "S256"
                  /\ last.result.code_verifier # None
            /\ last.result.state = url.state
            /\ last.state # None => last.result.state = last.state

\* a URL built without PKCE for a caller that supplied its state
C23_Witness ==
    /\ last.op = "build_authorization_url"
    /\ ~last.use_pkce
    /\ last.state = "s1"
    /\ last.result.auth_url.state = "s1"
    /\ last.result.code_verifier = None

\* a URL built with PKCE and a generated state
C23_WitnessPkce ==
    /\ last.op = "build_authorization_url"
    /\ last.use_pkce
    /\ last.state = None
    /\ last.result.state = "r2"
    /\ last.result.auth_url.code_challenge = S256("v1")
    /\ last.result.code_verifier = "v1"

(* ----------------------- specification: encryption --------------------- *)
\* what the user can type at the getpass prompts
TypedPassphrases == {"", "pw1", "pw2", "pw1" \o NUL}

Plaintexts == {"", "secret", "{\"access_token\": \"tokA\"}", "pw1"}

\* _encrypt_data(data) then _decrypt_data of its output, the user typing
\* typed_encrypt at the first prompt and typed_decrypt at the second
EncryptThenDecrypt(data, typed_encrypt, typed_decrypt) ==
    /\ last' = [op |-> "encrypt_decrypt",
                data |-> data,
                typed_encrypt |-> typed_encrypt,
                typed_decrypt |-> typed_decrypt,
                result |-> _decrypt_data(_encrypt_data(data, typed_encrypt),
                                         typed_decrypt)]
    /\ UNCHANGED <<now, keyring_works, keyring, files, environ, client, login, inflight, umask, config>>

NextEncryption ==
    \/ \E data \in Plaintexts, typed_encrypt \in TypedPassphrases,
          typed_decrypt \in TypedPassphrases :
            EncryptThenDecrypt(data, typed_encrypt, typed_decrypt)
    \/ Tick

SpecEncryption == InitRefresh /\ [][NextEncryption]_vars

C24_WitnessPadded ==
    /\ last.op = "encrypt_decrypt"
    /\ last.data = "secret"
    /\ last.typed_encrypt = "pw1"
    /\ last.typed_decrypt = "pw1" \o NUL
    /\ last.result = Ok("secret")

(* ----------------------- specification: file modes --------------------- *)
\* 0o000, 0o022, 0o077
Umasks == {0, 18, 63}

InitFileModes ==
    /\ now = 0
    /\ keyring_works \in BOOLEAN
    /\ EmptyStores
    /\ environ = [BBCLI_USERNAME |-> None, BBCLI_PASSWORD |-> None,
                  BBCLI_OAUTH_TOKEN |-> None]
    /\ client = Null
    /\ login = NoLogin
    /\ inflight = NoRequest
    /\ umask \in Umasks
    /\ file_mode = NoModes
    /\ config = NoConfig
    /\ last = [op |-> "start"]

NextFileModes ==
    \/ KeyringChange
    \/ \E fail \in BOOLEAN : StoreOAuthToken(StoredToken(120, now), "pw1", fail)
    \/ DeleteOAuthToken
    \/ \E fail \in BOOLEAN : StoreOAuthApp(TheOAuthApp, "pw1", fail)
    \/ \E kfail \in 0 .. 2, ffail \in BOOLEAN :
          StoreCredentials("suser", "spass", "pw1", kfail, ffail)
    \/ DeleteCredentials
    \/ Tick

SpecFileModes == InitFileModes /\ [][NextFileModes]_vars

(* ---------------------------- claims: file modes ----------------------- *)
\* C25: in fallback mode every secret file a store operation has written
\* (credentials.enc, oauth_app.enc, oauth_token.enc) has mode 0600 when the
\* operation returns.
C25_SecretFilesAre0600 ==
    /\ (/\ last.op = "store_credentials"
        /\ ~Raised(last.result)
        /\ ~last.native_written) => file_mode["credentials.enc"] = SecureMode
    /\ (/\ last.op = "store_oauth_app"
        /\ last.result
        /\ ~keyring_works) => file_mode["oauth_app.enc"] = SecureMode
    /\ (/\ last.op = "store_oauth_token"
        /\ last.result
        /\ ~keyring_works) => file_mode["oauth_token.enc"] = SecureMode

\* the part the code keeps: credentials.enc is 0600 whenever it exists
C25_CredentialsFileIs0600 ==
    file_credentials # Null => file_mode["credentials.enc"] = SecureMode

(* ----------------------- claims: OAuth preference off ------------------ *)
\* the basic candidate of highest priority: the constructor pair, else the
\* environment pair, else what the vault answers
FirstBasicCandidate ==
    IF Truthy(client._provided_username) /\ Truthy(client._provided_password)
    THEN Ok([username |-> client._provided_username,
             password |-> client._provided_password])
    ELSE IF Truthy(environ.BBCLI_USERNAME) /\ Truthy(environ.BBCLI_PASSWORD)
         THEN Ok([username |-> environ.BBCLI_USERNAME,
                  password |-> environ.BBCLI_PASSWORD])
         ELSE last.vault

\* C26: a request of a client built with prefer_oauth disabled never carries
\* a Bearer header, whatever bearer token is available: its Authorization
\* header is "Basic base64(user:secret)" when a basic candidate resolves and
\* is absent otherwise.
C26_NoBearerWhenOAuthDisabled ==
    (/\ last.op = "_make_request"
     /\ ~client._prefer_oauth
     /\ last.sent) =>
        /\ ~Raised(FirstBasicCandidate)
        /\ last.header =
              IF FirstBasicCandidate.value # Null
              THEN "Basic " \o b64encode(FirstBasicCandidate.value.username \o ":"
                                            \o FirstBasicCandidate.value.password)
              ELSE None

\* a request of such a client that has a constructor token, an environment
\* token and a stored token at hand, and a pair in the vault only
C26_Witness ==
    /\ last.op = "_make_request"
    /\ ~client._prefer_oauth
    /\ last.sent
    /\ Truthy(client._provided_oauth_token)
    /\ Truthy(environ.BBCLI_OAUTH_TOKEN)
    /\ last.valid_token # Null
    /\ last.header = "Basic b64<suser:spass>"

\* such a client with a bearer token at hand and no pair anywhere sends no
\* Authorization header
C26_WitnessAbsent ==
    /\ last.op = "_make_request"
    /\ ~client._prefer_oauth
    /\ last.sent
    /\ Truthy(client._provided_oauth_token)
    /\ last.header = None

(* ---------------------- specification: Config singleton ---------------- *)
\* Config(config_dir) or get_config() is called by thread t
ConfigCall(t, config_dir) ==
    /\ config.pc[t] \in {"idle", "done", "raised"}
    /\ config' = [config EXCEPT !.pc[t] = "acquire", !.config_dir[t] = config_dir,
                                !.received[t] = Null]
    /\ last' = [op |-> "Config", thread |-> t]
    /\ UNCHANGED <<now, keyring_works, keyring, files, environ, client, login,
                   inflight, umask>>

\* "with cls._lock:" entered without waiting for the lock
__enter__unlocked(t) ==
    /\ config.pc[t] = "acquire"
    /\ config' = [config EXCEPT !._lock = t, !.pc[t] = "locked"]
    /\ last' = [op |-> "acquire", thread |-> t]
    /\ UNCHANGED <<now, keyring_works, keyring, files, environ, client, login,
                   inflight, umask>>

\* "with cls._lock:" entered
__enter__(t) ==
    /\ config.pc[t] = "acquire"
    /\ config._lock = NoThread
    /\ config' = [config EXCEPT !._lock = t, !.pc[t] = "locked"]
    /\ last' = [op |-> "acquire", thread |-> t]
    /\ UNCHANGED <<now, keyring_works, keyring, files, environ, client, login,
                   inflight, umask>>

\* the test of the with body: "if cls not in cls._instances"
__call__(t) ==
    /\ config.pc[t] = "locked"
    /\ config' = [config EXCEPT !.pc[t] = IF config._instances # Null
                                          THEN "release" ELSE "construct"]
    /\ last' = [op |-> "__call__", thread |-> t]
    /\ UNCHANGED <<now, keyring_works, keyring, files, environ, client, login,
                   inflight, umask>>

\* "instance = super().__call__(*args, **kwargs)" and
\* "cls._instances[cls] = instance": Config.__init__ takes ~/.bbcli for a
\* None argument; ok: mkdir and _load_config succeed, else the exception
\* leaves __call__ with nothing stored
__init__(t, ok) ==
    /\ config.pc[t] = "construct"
    /\ IF ok
       THEN config' = [config EXCEPT
                          !._instances =
                              [id |-> config.init_runs + 1,
                               config_dir |-> IF config.config_dir[t] = None
                                              THEN "~/.bbcli"
                                              ELSE config.config_dir[t]],
                          !.init_runs = @ + 1,
                          !.init_done = @ + 1,
                          !.pc[t] = "release"]
       ELSE config' = [config EXCEPT !.init_runs = @ + 1, !.pc[t] = "unwind"]
    /\ last' = [op |-> "__init__", thread |-> t]
    /\ UNCHANGED <<now, keyring_works, keyring, files, environ, client, login,
                   inflight, umask>>

\* the with statement is left, normally or by the exception
__exit__(t) ==
    /\ config.pc[t] \in {"release", "unwind"}
    /\ config' = [config EXCEPT !._lock = NoThread,
                                !.pc[t] = IF config.pc[t] = "release"
                                          THEN "return" ELSE "raised"]
    /\ last' = [op |-> "release", thread |-> t]
    /\ UNCHANGED <<now, keyring_works, keyring, files, environ, client, login,
                   inflight, umask>>

\* "return cls._instances[cls]"
ConfigReturn(t) ==
    /\ config.pc[t] = "return"
    /\ config' = [config EXCEPT !.received[t] = config._instances, !.pc[t] = "done"]
    /\ last' = [op |-> "return", thread |-> t]
    /\ UNCHANGED <<now, keyring_works, keyring, files, environ, client, login,
                   inflight, umask>>

\* the constructor may fail at most MaxInitFailures times
MaxInitFailures == 1

NextConfig ==
    \/ \E t \in Threads, config_dir \in {None, "/a", "/b"} : ConfigCall(t, config_dir)
    \/ \E t \in Threads : __enter__(t)
    \/ \E t \in Threads : __call__(t)
    \/ \E t \in Threads, ok \in BOOLEAN :
          /\ ~ok => config.init_runs - config.init_done < MaxInitFailures
          /\ __init__(t, ok)
    \/ \E t \in Threads : __exit__(t)
    \/ \E t \in Threads : ConfigReturn(t)

SpecConfig == InitRefresh /\ [][NextConfig]_vars


StoredPairs == {<<"suser", "spass">>, <<"suser2", "spass2">>}

NextVault ==
    \/ KeyringChange
    \/ \E pair \in StoredPairs, kfail \in 0 .. 2, ffail \in BOOLEAN :
          StoreCredentials(pair[1], pair[2], "pw1", kfail, ffail)
    \/ DeleteCredentials
    \/ \E inp \in StorageInputs : GetCredentials(inp.pw, inp.kfail)
    \/ Tick

SpecVault == InitStorage /\ [][NextVault]_vars

(* ------------------------------ claims: the vault ---------------------- *)
\* C28: after store_credentials(u, p) returned without raising, the next
\* get_credentials() of the same AuthManager, given the same master
\* passphrase when the file is read, returns exactly (u, p), also when the
\* keyring write failed and the call fell back to the file while an older
\* pair is still in the keyring.
C28_StoredPairReadBack ==
    (last.op = "store_credentials" /\ ~Raised(last.result)) =>
        get_credentials(last.keyring_available, last.master_password, FALSE)
            = Ok([username |-> last.username, password |-> last.app_password])

\* the part the code keeps: the pair is read back whenever the backend the
\* call wrote to holds no older pair in the keyring
C28_ReadBackWithoutOlderKeyringPair ==
    (/\ last.op = "store_credentials"
     /\ ~Raised(last.result)
     /\ (last.native_written \/ ~last.keyring_available)) =>
        get_credentials(last.keyring_available, last.master_password, FALSE)
            = Ok([username |-> last.username, password |-> last.app_password])


(* --------------------- claims: resolution on every request ------------- *)
\* the token store of the client holds no token any more, or one whose
\* lifetime is over
StoredTokenGone ==
    LET stored == StoredTokenOf(client.oauth_keyring_available)
    IN  \/ stored = Null
        \/ /\ stored.expires_in # NoInt
           /\ now >= stored.created_at + stored.expires_in

\* C29: the credentials are resolved again on every request: a request built
\* after the stored OAuth token expired or was deleted never carries that
\* token as Bearer, also on a client built before that.
C29_NoStaleBearer ==
    (/\ last.op = "_make_request"
     /\ last.sent
     /\ StoredTokenGone) => last.header # "Bearer stok"

\* a request of a client that prefers OAuth and has no other bearer token,
\* made while the store still holds the token that has expired
C29_Witness ==
    /\ last.op = "_make_request"
    /\ last.sent
    /\ client._prefer_oauth
    /\ ~Truthy(client._provided_oauth_token)
    /\ ~Truthy(environ.BBCLI_OAUTH_TOKEN)
    /\ StoredTokenOf(client.oauth_keyring_available) # Null
    /\ StoredTokenGone
    /\ last.header \in {None, "Basic b64<suser:spass>"}

\* the same client after the token was deleted
C29_WitnessDeleted ==
    /\ last.op = "_make_request"
    /\ last.sent
    /\ client._prefer_oauth
    /\ ~Truthy(client._provided_oauth_token)
    /\ ~Truthy(environ.BBCLI_OAUTH_TOKEN)
    /\ StoredTokenOf(client.oauth_keyring_available) = Null
    /\ now > 0
    /\ last.header = None


(* --------------------------- claims: failed login ---------------------- *)
\* C30: if the login command ends in failure (callback error, missing code,
\* state mismatch, exchange failure, store failure or a failing test of the
\* new token), the OAuth token held in storage is the one held before the
\* command started.
C30_FailedLoginKeepsStoredToken ==
    (login.pc = "done" /\ login.exit_code # 0) =>
        <<kr_oauth_token, file_oauth_token>> = login.before

\* the part the code keeps: a failure up to and including the store leaves
\* the stored token as it was
C30_FailureBeforeTestKeepsStoredToken ==
    (login.pc = "done" /\ login.exit_code # 0 /\ ~login.stored) =>
        <<kr_oauth_token, file_oauth_token>> = login.before

====
